---- MODULE Spec2Model ----
(***************************************************************************)
(* A model of Juulsgaard/data-sources: the tree data source's hierarchy    *)
(* builder (nestData / populateDeepFolder), the range selection over it    *)
(* (TreeItemRange), the list data source's page clamp (updatePage) and the *)
(* rate-shaped search query (searchSignal).                                *)
(*                                                                         *)
(* Objects that reference each other in the source (folder <-> item,       *)
(* folder <-> sub folder, path) are held by id: record ids are unique.     *)
(* A JavaScript `undefined` is the value Undefined.  A call that recurses  *)
(* without end (a RangeError in JavaScript) yields the value Diverges.     *)
(***************************************************************************)
EXTENDS Integers, Sequences, FiniteSets, TLC

VARIABLES
  \* ---- TreeDataSource / TreeItemRange
  folders,          \* TreeDataSource._folders: the raw folder models, in order
  itemsIn,          \* TreeDataSource._itemsIn: the raw item models, in order
  folderParentId,   \* whether options.folderParentId is configured
  itemIds,          \* TreeItemRange._itemIds: the selected item ids
  rangeCall,        \* the value the last TreeItemRange call returned
  \* ---- ListDataSource
  listItems,        \* ListDataSource._items: the record ids, in order
  blacklist,        \* ListDataSource.blacklist
  filterState,      \* ListDataSource.filterState: [service, hideId], the state of options.filterService
  page,             \* ListDataSource._page: [page, pageSize]
  seenLength,       \* filteredLength as the updatePage effect last read it (-1: never ran)
  pageTracked,      \* whether the effect's last run read the page signal
  pageNotified,     \* whether the page signal was written since, while the effect tracked it
  pageLast,         \* the last step, when it was updatePage: what it read
  \* ---- searchSignal
  inputSignal,      \* the value of the input signal
  query,            \* the returned (committed) query signal
  nextValue,        \* the pending value of the throttle timeout
  shortTimeout,     \* the debounce timer of the effect's last run: [on, left, value]
  longTimeout,      \* the throttle timer: [on, left]
  effectDirty,      \* the effect is scheduled: its input changed since its last run
  searchLast,       \* history: the kind of the last step
  sinceUpdate,      \* history: ticks since the effect last took an update
  sinceFirst,       \* history: ticks since the first non-empty update after the last commit (-1: none)
  burst,            \* history: the current run of non-empty updates less than the debounce apart
  \* ---- the observable sources of the data sources
  folderPipe,       \* TreeDataSource: the subscription on folderSources$ ("idle", "live", "closed")
  itemPipe,         \* TreeDataSource: the subscription on itemSources$
  listPipe,         \* ListDataSource: the subscription on itemSources$
  sourceError,      \* whether an error notification reached a subscriber
  sourceLast,       \* history: the last source notification [kind, pipe, before]
  \* ---- sorting
  treeSorting,      \* TreeDataSource._sorting: [active, direction]
  listSorting,      \* ListDataSource._sorting: [active, direction]
  indexSorted,      \* ListDataSource: options.indexSorted
  \* ---- the searchers (FuseSearcher and SimpleSearcher over the same records)
  collection,       \* the records the searchers were populated with
  searchCall,       \* history: the last search call [query, limit, fuse, simple]
  \* ---- TreeItemSelection (single selection)
  folderIdSignal,   \* TreeItemSelection._folderId
  itemIdSignal,     \* TreeItemSelection._itemId
  selectionCall,    \* history: the last toggle call [kind, target, state, value, folderBefore, itemBefore]
  \* ---- BaseTreeState
  openFolders,      \* BaseTreeState._openFolders$: the ids of the open folders
  \* ---- row configurations and detached search
  listConfig,       \* ListDataSource.listConfig is given
  gridConfig,       \* ListDataSource.gridConfig is given
  treeConfig,       \* TreeDataSource.treeConfig is given
  detachedCall,     \* history: the last detached search call [kind, threw, query, rows]
  \* ---- TreeSelection (single selection of a folder and an item in it)
  selectedFolderId, \* TreeSelection._folderId
  selectedItemId,   \* TreeSelection._itemId
  \* ---- the DestroyRef of the injector
  destroyed         \* the injector was destroyed: effects and destroy callbacks have run

treeVars == <<folders, itemsIn, folderParentId, itemIds, rangeCall>>
listVars == <<listItems, blacklist, filterState, page, seenLength, pageTracked, pageNotified, pageLast>>

searchVars == <<inputSignal, query, nextValue, shortTimeout, longTimeout, effectDirty,
                searchLast, sinceUpdate, sinceFirst, burst>>

sourceVars == <<folderPipe, itemPipe, listPipe, sourceError, sourceLast>>

sortVars == <<treeSorting, listSorting, indexSorted>>

searcherVars == <<collection, searchCall>>

\* the state of the classes that stand apart from the data sources
selectionVars == <<folderIdSignal, itemIdSignal, selectionCall>>

treeStateVars == <<openFolders>>

configVars == <<listConfig, gridConfig, treeConfig, detachedCall>>

disposeVars == <<destroyed>>
treeSelectionVars == <<selectedFolderId, selectedItemId>>

standaloneVars == <<searcherVars, selectionVars, treeStateVars, configVars, disposeVars, treeSelectionVars>>

dataSourceVars == <<treeVars, listVars, searchVars, sourceVars, sortVars>>

vars == <<dataSourceVars, standaloneVars>>

\* what the operations of one part leave alone
exceptTree == <<listVars, searchVars, sourceVars, sortVars, standaloneVars>>
exceptList == <<treeVars, searchVars, sourceVars, sortVars, standaloneVars>>
exceptSearch == <<treeVars, listVars, sourceVars, sortVars, standaloneVars>>
exceptSearcher == <<dataSourceVars, selectionVars, treeStateVars, configVars, disposeVars, treeSelectionVars>>
exceptSelection == <<listVars, searchVars, sourceVars, sortVars, searcherVars, treeStateVars, configVars,
                     disposeVars, treeSelectionVars>>
exceptTreeState == <<dataSourceVars, searcherVars, selectionVars, configVars, disposeVars, treeSelectionVars>>
exceptDetached == <<dataSourceVars, searcherVars, selectionVars, treeStateVars,
                    listConfig, gridConfig, treeConfig, disposeVars, treeSelectionVars>>
exceptTreeSelection == <<dataSourceVars, searcherVars, selectionVars, treeStateVars, configVars, disposeVars>>

----------------------------------------------------------------------------
\* Bounds of the model

MaxFolders == 3
MaxItems == 2
MaxListLen == 5
MaxPageSize == 2
MaxPageIndex == 3
MaxRecords == 3
MaxLimit == 3

\* searchSignal(this.searchQuery, 1000, 300): the delays, in ticks of 100 ms
ThrottleDelay == 10
DebounceDelay == 3

Undefined == "undefined"
Diverges == "diverges"

FolderName == <<"F1", "F2", "F3", "F4", "F5", "F6">>
ItemName == <<"I1", "I2", "I3", "I4", "I5", "I6">>

FolderIds == {FolderName[i] : i \in 1..MaxFolders}
ItemIds == {ItemName[i] : i \in 1..MaxItems}

RecordName == <<"R1", "R2", "R3", "R4", "R5", "R6", "R7", "R8">>
RecordIds == {RecordName[i] : i \in 1..MaxListLen}

----------------------------------------------------------------------------
\* Helpers

Range(s) == {s[i] : i \in DOMAIN s}

RECURSIVE SumSeq(_)
SumSeq(s) == IF Len(s) = 0 THEN 0 ELSE Head(s) + SumSeq(Tail(s))

\* arrToLookup(arr, x => x.folderId).get(k): the ids of the elements filed under k, in order
ItemsOfFolder(arr, k) ==
  LET hit == SelectSeq(arr, LAMBDA x : x.folderId = k)
  IN [i \in 1..Len(hit) |-> hit[i].id]

\* arrToLookup(arr, x => x.parentId).get(k): the ids of the elements filed under k, in order
FoldersOfParent(arr, k) ==
  LET hit == SelectSeq(arr, LAMBDA x : x.parentId = k)
  IN [i \in 1..Len(hit) |-> hit[i].id]

----------------------------------------------------------------------------
\* TreeDataSource: base lists

\* baseFolders: the parent id is read only when options.folderParentId is configured
baseFolders ==
  [i \in 1..Len(folders) |->
     [id |-> folders[i].id,
      parentId |-> IF folderParentId THEN folders[i].parent ELSE Undefined]]

\* baseItems (options.itemParentId branch)
baseItems ==
  [i \in 1..Len(itemsIn) |-> [id |-> itemsIn[i].id, folderId |-> itemsIn[i].folder]]

----------------------------------------------------------------------------
\* TreeDataSource.nestData / populateDeepFolder

RECURSIVE populateDeepFolder(_, _, _)
RECURSIVE populateSubFolders(_, _, _)

\* The loop of populateDeepFolder over folder.folders: m after each sub folder is populated
populateSubFolders(m, subs, newPath) ==
  IF Len(subs) = 0 THEN m
  ELSE populateSubFolders(populateDeepFolder(m, Head(subs), newPath), Tail(subs), newPath)

\* populateDeepFolder without `itemCount += counts.itemCount`
populateDeepFolderDirectItems(m, folder, path) ==
  LET m1 == [m EXCEPT ![folder].path = path]
      subs == m1[folder].folders
      m2 == populateSubFolders(m1, subs, Append(path, folder))
      folderCount == Len(subs) + SumSeq([i \in 1..Len(subs) |-> m2[subs[i]].folderCount])
  IN [m2 EXCEPT ![folder].folderCount = folderCount,
                ![folder].itemCount = Len(m1[folder].items)]

\* populateDeepFolder with `folder.path = [...path, folder]`
populateDeepFolderPathWithSelf(m, folder, path) ==
  LET m1 == [m EXCEPT ![folder].path = Append(path, folder)]
      subs == m1[folder].folders
      m2 == populateSubFolders(m1, subs, Append(path, folder))
      folderCount == Len(subs) + SumSeq([i \in 1..Len(subs) |-> m2[subs[i]].folderCount])
      itemCount == Len(m1[folder].items) + SumSeq([i \in 1..Len(subs) |-> m2[subs[i]].itemCount])
  IN [m2 EXCEPT ![folder].folderCount = folderCount, ![folder].itemCount = itemCount]

\* m maps folder id -> meta folder; the result is m with folder and its descendants populated.
\* A call on a folder that is already on the path would call itself again with a longer
\* path, without end: the folder is marked `diverges` and the recursion is cut there.
populateDeepFolder(m, folder, path) ==
  IF folder \in Range(path) THEN [m EXCEPT ![folder].diverges = TRUE]
  ELSE
    LET m1 == [m EXCEPT ![folder].path = path]
        subs == m1[folder].folders
        m2 == populateSubFolders(m1, subs, Append(path, folder))
        folderCount == Len(subs) + SumSeq([i \in 1..Len(subs) |-> m2[subs[i]].folderCount])
        itemCount == Len(m1[folder].items) + SumSeq([i \in 1..Len(subs) |-> m2[subs[i]].itemCount])
    IN [m2 EXCEPT ![folder].folderCount = folderCount, ![folder].itemCount = itemCount]

RECURSIVE populateRoots(_, _)
populateRoots(m, root) ==
  IF Len(root) = 0 THEN m
  ELSE populateRoots(populateDeepFolder(m, Head(root), <<>>), Tail(root))

\* mappedItems: every input item is copied; item.folder is set only in a folder's loop
mappedItems(fs, its) ==
  [i \in 1..Len(its) |->
     [id |-> its[i].id,
      folderId |-> its[i].folderId,
      folder |-> IF \E j \in 1..Len(fs) : fs[j].id = its[i].folderId
                 THEN its[i].folderId ELSE Undefined]]

\* mappedFolders with itemCount left at 0
mappedFoldersNoItemCount(fs, its) ==
  [f \in {fs[j].id : j \in 1..Len(fs)} |->
     LET folder == fs[CHOOSE j \in 1..Len(fs) : fs[j].id = f]
     IN [id |-> f,
         parentId |-> folder.parentId,
         items |-> ItemsOfFolder(its, f),
         folders |-> <<>>,
         folderCount |-> 0,
         itemCount |-> 0,
         path |-> <<>>,
         diverges |-> FALSE]]

\* mappedFolders, as a map from folder id
mappedFolders(fs, its) ==
  [f \in {fs[j].id : j \in 1..Len(fs)} |->
     LET folder == fs[CHOOSE j \in 1..Len(fs) : fs[j].id = f]
         items == ItemsOfFolder(its, f)
     IN [id |-> f,
         parentId |-> folder.parentId,
         items |-> items,
         folders |-> <<>>,
         folderCount |-> 0,
         itemCount |-> Len(items),
         path |-> <<>>,
         diverges |-> FALSE]]

\* the "Assign sub folders" loop
assignSubFolders(m, fs) ==
  [f \in DOMAIN m |-> [m[f] EXCEPT !.folders = FoldersOfParent(fs, f)]]

\* nestData calling populateDeepFolder on every folder instead of the root folders
nestDataFromEveryFolder(fs, its) ==
  IF Len(fs) = 0 THEN [folders |-> <<>>, items |-> <<>>]
  ELSE
    LET mapped == mappedFolders(fs, its)
        nested == populateRoots(assignSubFolders(mapped, fs), [i \in 1..Len(fs) |-> fs[i].id])
        m == IF folderParentId THEN nested ELSE mapped
    IN [folders |-> [i \in 1..Len(fs) |-> m[fs[i].id]],
        items |-> mappedItems(fs, its)]

\* `diverges` on a folder of the result: the call never returns
nestData(fs, its) ==
  IF Len(fs) = 0 THEN [folders |-> <<>>, items |-> <<>>]
  ELSE
    LET mapped == mappedFolders(fs, its)
        nested == populateRoots(assignSubFolders(mapped, fs), FoldersOfParent(fs, Undefined))
        m == IF folderParentId THEN nested ELSE mapped
    IN [folders |-> [i \in 1..Len(fs) |-> m[fs[i].id]],
        items |-> mappedItems(fs, its)]

nestedLookupData == nestData(baseFolders, baseItems)
metaFolders == nestedLookupData.folders
metaItems == nestedLookupData.items

\* metaFolderLookup = arrToMap(metaFolders, x => x.model.id)
metaFolderLookup ==
  LET mf == metaFolders
  IN [f \in {mf[i].id : i \in 1..Len(mf)} |-> mf[CHOOSE i \in 1..Len(mf) : mf[i].id = f]]

----------------------------------------------------------------------------
\* TreeItemRange: folder checkbox state

RECURSIVE folderItemLoop(_, _, _, _)
\* the for loop of getFolderItemState, from the i-th item on
folderItemLoop(items, i, state, selection) ==
  IF i > Len(items) THEN state
  ELSE LET selected == items[i] \in selection
       IN IF selected /\ state = "none" THEN "some"
          ELSE IF ~selected /\ state = "all" THEN "all"
          ELSE folderItemLoop(items, i + 1, state, selection)

getFolderItemState(items, selection) ==
  IF Len(items) = 0 THEN "none"
  ELSE LET state == IF items[1] \in selection THEN "all" ELSE "none"
       IN IF Len(items) = 1 THEN state
          ELSE folderItemLoop(items, 2, state, selection)

RECURSIVE getMetaFolderState(_, _, _, _, _, _)
RECURSIVE metaSubFolderLoop(_, _, _, _, _, _, _)

\* the loop of getMetaFolderState over folder.folders, from the i-th sub folder on
metaSubFolderLoop(mf, parentState, state, subs, i, selection, stack) ==
  IF i > Len(subs) THEN state
  ELSE LET subState == getMetaFolderState(mf, parentState, subs[i], selection, FALSE, stack)
           st == IF state = Undefined THEN subState ELSE state
       IN IF subState = Diverges THEN Diverges
          ELSE IF subState = "some" THEN "some"
          ELSE IF subState # st THEN "some"
          ELSE metaSubFolderLoop(mf, parentState, st, subs, i + 1, selection, stack)

\* mf: the meta folders by id; stack: the folders whose call is in progress
getMetaFolderState(mf, parentState, folder, selection, shallow, stack) ==
  IF shallow THEN getFolderItemState(mf[folder].items, selection)
  ELSE IF folder \in stack THEN Diverges
  ELSE
    LET itemState == getFolderItemState(mf[folder].items, selection)
        state == IF parentState = Undefined THEN itemState ELSE parentState
    IN IF itemState = "some" THEN "some"
       ELSE IF itemState # state THEN "some"
       ELSE metaSubFolderLoop(mf, parentState, state, mf[folder].folders, 1, selection,
                              stack \cup {folder})

\* shallowFolderStates: folder id -> state, Undefined where the map has no entry
shallowFolderStates ==
  [f \in FolderIds |->
     IF itemIds = {} THEN Undefined
     ELSE LET items == ItemsOfFolder(baseItems, f)
          IN IF Len(items) = 0 THEN Undefined ELSE getFolderItemState(items, itemIds)]

RECURSIVE storeLookupFolderState(_, _, _, _, _)
RECURSIVE getLookupFolderState(_, _, _, _, _)
RECURSIVE lookupSubFolderLoop(_, _, _, _, _, _, _)

\* the loop of getLookupFolderState over the sub folders, from the i-th on;
\* the result is the returned state and the memo map as the calls left it
lookupSubFolderLoop(state, subs, i, itemStates, fs, folderStatesMap, stack) ==
  IF i > Len(subs) THEN [state |-> state, map |-> folderStatesMap]
  ELSE LET r == storeLookupFolderState(subs[i], itemStates, fs, folderStatesMap, stack)
       IN IF r.state = Diverges THEN r
          ELSE IF r.state = Undefined
            THEN lookupSubFolderLoop(state, subs, i + 1, itemStates, fs, r.map, stack)
          ELSE IF r.state = "some" THEN [state |-> "some", map |-> r.map]
          ELSE IF state = Undefined
            THEN lookupSubFolderLoop(r.state, subs, i + 1, itemStates, fs, r.map, stack)
          ELSE IF r.state # state THEN [state |-> "some", map |-> r.map]
          ELSE lookupSubFolderLoop(state, subs, i + 1, itemStates, fs, r.map, stack)

getLookupFolderState(folder, itemStates, fs, folderStatesMap, stack) ==
  IF folder \in stack THEN [state |-> Diverges, map |-> folderStatesMap]
  ELSE
    LET itemState == IF folder \in DOMAIN itemStates THEN itemStates[folder] ELSE Undefined
    IN IF itemState = "some" THEN [state |-> "some", map |-> folderStatesMap]
       ELSE lookupSubFolderLoop(itemState, FoldersOfParent(fs, folder), 1, itemStates, fs,
                                folderStatesMap, stack \cup {folder})

storeLookupFolderState(folder, itemStates, fs, folderStatesMap, stack) ==
  IF folderStatesMap[folder] # Undefined
  THEN [state |-> folderStatesMap[folder], map |-> folderStatesMap]
  ELSE LET r == getLookupFolderState(folder, itemStates, fs, folderStatesMap, stack)
       IN IF r.state = Diverges THEN r
          ELSE [state |-> r.state, map |-> [r.map EXCEPT ![folder] = r.state]]

RECURSIVE folderStatesLoop(_, _, _, _)
\* the loop of folderStates over baseFolders, from the i-th folder on
folderStatesLoop(fs, i, itemStates, folderStatesMap) ==
  IF i > Len(fs) THEN [diverges |-> FALSE, map |-> folderStatesMap]
  ELSE LET r == storeLookupFolderState(fs[i].id, itemStates, fs, folderStatesMap, {})
       IN IF r.state = Diverges THEN [diverges |-> TRUE, map |-> folderStatesMap]
          ELSE folderStatesLoop(fs, i + 1, itemStates, r.map)

\* folderStates: folder id -> state (Undefined where the map has no entry);
\* diverges when the computation recurses without end
folderStates ==
  LET itemStates == shallowFolderStates
      empty == [f \in FolderIds |-> Undefined]
  IN IF \A f \in FolderIds : itemStates[f] = Undefined
     THEN [diverges |-> FALSE, map |-> empty]
     ELSE folderStatesLoop(baseFolders, 1, itemStates, empty)

\* getFolderState(folder: string, shallow)(): answered from the precomputed maps
getFolderStateById(folderId, shallow) ==
  IF shallow
  THEN IF shallowFolderStates[folderId] = Undefined THEN "none" ELSE shallowFolderStates[folderId]
  ELSE LET states == folderStates
       IN IF states.diverges THEN Diverges
          ELSE IF states.map[folderId] = Undefined THEN "none" ELSE states.map[folderId]

\* getFolderState(folder: TreeFolder, shallow)(): answered by the recursive combine
getFolderStateByMeta(folder, shallow) ==
  IF itemIds = {} THEN "none"
  ELSE LET state == getMetaFolderState(metaFolderLookup, Undefined, folder, itemIds, shallow, {})
       IN IF state = Undefined THEN "none" ELSE state

----------------------------------------------------------------------------
\* TreeItemRange: changing the selection

RECURSIVE getFolderItems(_, _, _)
RECURSIVE getSubFolderItems(_, _, _)

getSubFolderItems(mf, subs, stack) ==
  IF Len(subs) = 0 THEN [diverges |-> FALSE, items |-> <<>>]
  ELSE LET first == getFolderItems(mf, Head(subs), stack)
           rest == getSubFolderItems(mf, Tail(subs), stack)
       IN IF first.diverges THEN first
          ELSE IF rest.diverges THEN rest
          ELSE [diverges |-> FALSE, items |-> first.items \o rest.items]

\* the generator getFolderItems, drained: the item ids in the order they are yielded
\* (diverges: the generator never ends)
getFolderItems(mf, folder, stack) ==
  IF folder \in stack THEN [diverges |-> TRUE, items |-> <<>>]
  ELSE LET sub == getSubFolderItems(mf, mf[folder].folders, stack \cup {folder})
       IN IF sub.diverges THEN sub
          ELSE [diverges |-> FALSE, items |-> mf[folder].items \o sub.items]

\* SignalSet.addRange / deleteRange: the new set and what the call returns
addRange(set, ids) ==
  [set |-> set \cup ids, value |-> IF ids \subseteq set THEN Undefined ELSE "true"]

deleteRange(set, ids) ==
  [set |-> set \ ids, value |-> IF ids \cap set = {} THEN Undefined ELSE "false"]

\* toggleFolder without `if (metaFolder.itemCount <= 0) return undefined`
toggleFolderNoEmptyReturn(folder, state, shallow) ==
  LET mf == metaFolderLookup
      unchanged == [set |-> itemIds, value |-> Undefined]
  IN IF folder \notin DOMAIN mf THEN unchanged
     ELSE
       LET allItems == IF shallow THEN [diverges |-> FALSE, items |-> mf[folder].items]
                       ELSE getFolderItems(mf, folder, {})
       IN IF allItems.diverges THEN [set |-> itemIds, value |-> Diverges]
          ELSE
            LET allItemIds == Range(allItems.items)
                selectionState == getMetaFolderState(mf, Undefined, folder, itemIds, shallow, {})
            IN IF state = "false" THEN deleteRange(itemIds, allItemIds)
               ELSE IF state = "true" THEN addRange(itemIds, allItemIds)
               ELSE IF selectionState = Diverges THEN [set |-> itemIds, value |-> Diverges]
               ELSE IF selectionState = "all" THEN deleteRange(itemIds, allItemIds)
               ELSE addRange(itemIds, allItemIds)

\* toggleFolder collecting only the direct items, whatever shallow says
toggleFolderDirectOnly(folder, state, shallow) ==
  LET mf == metaFolderLookup
      unchanged == [set |-> itemIds, value |-> Undefined]
  IN IF folder \notin DOMAIN mf THEN unchanged
     ELSE IF mf[folder].itemCount <= 0 THEN unchanged
     ELSE
       LET allItemIds == Range(mf[folder].items)
           selectionState == getMetaFolderState(mf, Undefined, folder, itemIds, shallow, {})
       IN IF state = "false" THEN deleteRange(itemIds, allItemIds)
          ELSE IF state = "true" THEN addRange(itemIds, allItemIds)
          ELSE IF selectionState = Diverges THEN [set |-> itemIds, value |-> Diverges]
          ELSE IF selectionState = "all" THEN deleteRange(itemIds, allItemIds)
          ELSE addRange(itemIds, allItemIds)

\* toggleFolder(folder: string, state, shallow): the new selection and the returned value
toggleFolder(folder, state, shallow) ==
  LET mf == metaFolderLookup
      unchanged == [set |-> itemIds, value |-> Undefined]
  IN IF folder \notin DOMAIN mf THEN unchanged
     ELSE IF mf[folder].itemCount <= 0 THEN unchanged
     ELSE
       LET allItems == IF shallow THEN [diverges |-> FALSE, items |-> mf[folder].items]
                       ELSE getFolderItems(mf, folder, {})
       IN IF allItems.diverges THEN [set |-> itemIds, value |-> Diverges]
          ELSE
            LET allItemIds == Range(allItems.items)
                selectionState == getMetaFolderState(mf, Undefined, folder, itemIds, shallow, {})
            IN IF state = "false" THEN deleteRange(itemIds, allItemIds)
               ELSE IF state = "true" THEN addRange(itemIds, allItemIds)
               ELSE IF selectionState = Diverges THEN [set |-> itemIds, value |-> Diverges]
               ELSE IF selectionState = "all" THEN deleteRange(itemIds, allItemIds)
               ELSE addRange(itemIds, allItemIds)

\* toggleItem(item: string, state) -> SignalSet.toggle
toggleItem(itemId, state) ==
  IF state = "true" THEN addRange(itemIds, {itemId})
  ELSE IF state = "false" THEN deleteRange(itemIds, {itemId})
  ELSE IF itemId \in itemIds THEN deleteRange(itemIds, {itemId})
  ELSE addRange(itemIds, {itemId})

----------------------------------------------------------------------------
\* Actions: populating the data source.  setFolders / setItems are called
\* with the current list extended or shortened by one record.

NextFolderId == FolderName[Len(folders) + 1]
NextItemId == ItemName[Len(itemsIn) + 1]

SetFoldersAdd(parent) ==
  /\ Len(folders) < MaxFolders
  /\ folders' = Append(folders, [id |-> NextFolderId, parent |-> parent])
  /\ rangeCall' = Undefined
  /\ UNCHANGED <<itemsIn, folderParentId, itemIds, exceptTree>>

SetFoldersRemove ==
  /\ Len(folders) > 0
  /\ folders' = SubSeq(folders, 1, Len(folders) - 1)
  /\ rangeCall' = Undefined
  /\ UNCHANGED <<itemsIn, folderParentId, itemIds, exceptTree>>

SetItemsAdd(folder) ==
  /\ Len(itemsIn) < MaxItems
  /\ itemsIn' = Append(itemsIn, [id |-> NextItemId, folder |-> folder])
  /\ rangeCall' = Undefined
  /\ UNCHANGED <<folders, folderParentId, itemIds, exceptTree>>

SetItemsRemove ==
  /\ Len(itemsIn) > 0
  /\ itemsIn' = SubSeq(itemsIn, 1, Len(itemsIn) - 1)
  /\ rangeCall' = Undefined
  /\ UNCHANGED <<folders, folderParentId, itemIds, exceptTree>>

ToggleStates == {Undefined, "true", "false"}

ToggleFolder(folder, state, shallow) ==
  LET r == toggleFolder(folder, state, shallow)
  IN /\ itemIds' = r.set
     /\ rangeCall' = r.value
     /\ UNCHANGED <<folders, itemsIn, folderParentId, exceptTree>>

ToggleItem(itemId, state) ==
  LET r == toggleItem(itemId, state)
  IN /\ itemIds' = r.set
     /\ rangeCall' = r.value
     /\ UNCHANGED <<folders, itemsIn, folderParentId, exceptTree>>

SetRange(list) ==
  /\ itemIds' = list
  /\ rangeCall' = Undefined
  /\ UNCHANGED <<folders, itemsIn, folderParentId, exceptTree>>

Clear ==
  /\ itemIds' = {}
  /\ rangeCall' = Undefined
  /\ UNCHANGED <<folders, itemsIn, folderParentId, exceptTree>>

----------------------------------------------------------------------------
\* ListDataSource: filtering and pagination (no filter service configured)

\* An array is [ref, items]: ref tells one array object from another. Every array
\* a call allocates is derived from its argument, so ref + 1 names a new object.
Array(ref, elems) == [ref |-> ref, items |-> elems]

\* Array.prototype.filter: always a new array
arrayFilter(list, Keep(_)) == Array(list.ref + 1, SelectSeq(list.items, Keep))

\* The one filter of the filter service: it hides the record filterState.hideId names,
\* and is active when one is named
isActive(filter) == filter.hideId # Undefined

\* IndividualDataFilter: (list, f) => list.filter(x => filter(x, f))
individualFilter(list, filter) == arrayFilter(list, LAMBDA x : x # filter.hideId)

\* DataFilter.filter without the isActive check
dataFilterAlwaysFilters(filter, list) == individualFilter(list, filter)

\* DataFilter.filter
dataFilter(filter, list) ==
  IF ~isActive(filter) THEN list ELSE individualFilter(list, filter)

\* FilterServiceState.filter: the loop over the filters of the service
filterServiceState(filter, list) == dataFilter(filter, list)

\* filterItems without the blacklist pass
filterItemsNoBlacklist(list) ==
  IF Len(list.items) <= 0 THEN list
  ELSE IF ~filterState.service THEN list
  ELSE filterServiceState(filterState, list)

\* filterItems: the blacklist pass, then the filter service
filterItems(list) ==
  IF Len(list.items) <= 0 THEN list
  ELSE LET afterBlacklist == IF blacklist # {}
                             THEN arrayFilter(list, LAMBDA x : x \notin blacklist)
                             ELSE list
       IN IF ~filterState.service THEN afterBlacklist
          ELSE filterServiceState(filterState, afterBlacklist)

\* this.items(): the array object that setItems stored
itemsArray == Array(0, listItems)

filteredItems == filterItems(itemsArray).items
filteredLength == Len(filteredItems)

\* updatePage without its write to the page signal
updatePageNeverClamps(p, length) ==
  IF length = 0 THEN [page |-> p, wrote |-> FALSE, readPage |-> FALSE]
  ELSE [page |-> p, wrote |-> FALSE, readPage |-> TRUE]

\* updatePage without the `length > page.page * page.pageSize` return
updatePageAlwaysClamps(p, length) ==
  IF length = 0 THEN [page |-> p, wrote |-> FALSE, readPage |-> FALSE]
  ELSE IF p.page = 0 THEN [page |-> p, wrote |-> FALSE, readPage |-> TRUE]
  ELSE [page |-> [pageSize |-> p.pageSize, page |-> (length - 1) \div p.pageSize],
        wrote |-> TRUE, readPage |-> TRUE]

\* updatePage with Math.floor(length / pageSize)
updatePageOffByOne(p, length) ==
  IF length = 0 THEN [page |-> p, wrote |-> FALSE, readPage |-> FALSE]
  ELSE IF p.page = 0 THEN [page |-> p, wrote |-> FALSE, readPage |-> TRUE]
  ELSE IF length > p.page * p.pageSize THEN [page |-> p, wrote |-> FALSE, readPage |-> TRUE]
  ELSE [page |-> [pageSize |-> p.pageSize, page |-> length \div p.pageSize],
        wrote |-> TRUE, readPage |-> TRUE]

\* updatePage on page p and filtered length `length`: the page it leaves, whether it
\* wrote the page signal, and whether it read it
updatePage(p, length) ==
  IF length = 0 THEN [page |-> p, wrote |-> FALSE, readPage |-> FALSE]
  ELSE IF p.page = 0 THEN [page |-> p, wrote |-> FALSE, readPage |-> TRUE]
  ELSE IF length > p.page * p.pageSize THEN [page |-> p, wrote |-> FALSE, readPage |-> TRUE]
  ELSE [page |-> [pageSize |-> p.pageSize, page |-> (length - 1) \div p.pageSize],
        wrote |-> TRUE, readPage |-> TRUE]

\* paginate (options.paginated)
paginate(list) ==
  IF Len(list) <= 0 THEN list
  ELSE SubSeq(list, page.page * page.pageSize + 1,
              IF (page.page + 1) * page.pageSize < Len(list)
              THEN (page.page + 1) * page.pageSize ELSE Len(list))

HideIds == {Undefined, "R1", "R2"}

NoPageRun == [ran |-> FALSE, page |-> 0, length |-> 0]

\* setItems with the current list extended / shortened by one record
ListSetItemsAdd ==
  /\ Len(listItems) < MaxListLen
  /\ listItems' = Append(listItems, RecordName[Len(listItems) + 1])
  /\ pageLast' = NoPageRun
  /\ UNCHANGED <<blacklist, filterState, page, seenLength, pageTracked, pageNotified, exceptList>>

ListSetItemsRemove ==
  /\ Len(listItems) > 0
  /\ listItems' = SubSeq(listItems, 1, Len(listItems) - 1)
  /\ pageLast' = NoPageRun
  /\ UNCHANGED <<blacklist, filterState, page, seenLength, pageTracked, pageNotified, exceptList>>

\* setBlacklist with one id added to / removed from the current blacklist
SetBlacklist(id) ==
  /\ blacklist' = IF id \in blacklist THEN blacklist \ {id} ELSE blacklist \cup {id}
  /\ pageLast' = NoPageRun
  /\ UNCHANGED <<listItems, filterState, page, seenLength, pageTracked, pageNotified, exceptList>>

\* the filter service publishes a new filter state
SetFilterState(hideId) ==
  /\ filterState.service
  /\ filterState' = [filterState EXCEPT !.hideId = hideId]
  /\ pageLast' = NoPageRun
  /\ UNCHANGED <<listItems, blacklist, page, seenLength, pageTracked, pageNotified, exceptList>>

\* setPage(pageIndex) and setPage({pageSize, pageIndex})
SetPage(pageSize, pageIndex) ==
  /\ page' = [page |-> pageIndex, pageSize |-> pageSize]
  /\ pageNotified' = (pageNotified \/ pageTracked)
  /\ pageLast' = NoPageRun
  /\ UNCHANGED <<listItems, blacklist, filterState, seenLength, pageTracked, exceptList>>

\* the effect `() => this.updatePage()`: it runs when a signal its last run read has
\* changed, and a write to the page signal it read schedules it again
UpdatePage ==
  /\ seenLength # filteredLength \/ pageNotified
  /\ LET r == updatePage(page, filteredLength)
     IN /\ page' = r.page
        /\ pageNotified' = r.wrote
        /\ pageTracked' = r.readPage
  /\ seenLength' = filteredLength
  /\ pageLast' = [ran |-> TRUE, page |-> page.page, length |-> filteredLength]
  /\ UNCHANGED <<listItems, blacklist, filterState, exceptList>>

ListNext ==
  \/ ListSetItemsAdd
  \/ ListSetItemsRemove
  \/ \E id \in RecordIds : SetBlacklist(id)
  \/ \E hideId \in HideIds : SetFilterState(hideId)
  \/ \E pageIndex \in 0..MaxPageIndex : SetPage(page.pageSize, pageIndex)
  \/ \E pageSize \in 1..MaxPageSize, pageIndex \in 0..MaxPageIndex : SetPage(pageSize, pageIndex)
  \/ UpdatePage

----------------------------------------------------------------------------
\* searchSignal: a throttled and debounced query, where empty values skip the delay.
\* Time passes in ticks; an effect scheduled by a change of its input runs before any
\* time passes, and a timer that is due runs before the next input is taken.

SearchValues == {Undefined, "", "a", "ab", "abc"}

NoShort == [on |-> FALSE, left |-> 0, value |-> Undefined]
NoLong == [on |-> FALSE, left |-> 0]
NoBurst == [open |-> FALSE, age |-> 0, changes |-> 0, changeAge |-> 0, before |-> Undefined]

IsEmpty(value) == value = Undefined \/ value = ""

\* clearThrottle leaving the timer pending
clearThrottleKeeps(long) == long

clearThrottle(long) == IF ~long.on THEN long ELSE NoLong

\* a debounce that is not reset by a later update
scheduleShortKeepsFirst(short, value) ==
  IF short.on THEN short ELSE [on |-> TRUE, left |-> DebounceDelay, value |-> value]

\* the cleanup of the last run clears its timer, and the run sets a new one
scheduleShort(short, value) == [on |-> TRUE, left |-> DebounceDelay, value |-> value]

\* a throttle that every update starts again
scheduleLongRestarts(long) == [on |-> TRUE, left |-> ThrottleDelay]

\* `if (longTimeout) return;` and the setTimeout after it
scheduleLong(long) == IF long.on THEN long ELSE [on |-> TRUE, left |-> ThrottleDelay]

\* the effect without the branch for empty values
searchEffectNoEmptyBranch(value, q, nv, short, long) ==
  [query |-> q, nextValue |-> value,
   shortTimeout |-> scheduleShort(short, value), longTimeout |-> scheduleLong(long)]

\* one run of the effect, the cleanup of its last run included
searchEffect(value, q, nv, short, long) ==
  IF IsEmpty(value)
  THEN [query |-> value, nextValue |-> nv,
        shortTimeout |-> NoShort, longTimeout |-> clearThrottle(long)]
  ELSE [query |-> q, nextValue |-> value,
        shortTimeout |-> scheduleShort(short, value), longTimeout |-> scheduleLong(long)]

TimerDue == (shortTimeout.on /\ shortTimeout.left = 0) \/ (longTimeout.on /\ longTimeout.left = 0)

Min(a, b) == IF a < b THEN a ELSE b

\* the burst history after a step that leaves the query at q
Committed(b, q) ==
  IF b.open /\ q # query
  THEN [b EXCEPT !.changes = Min(2, b.changes + 1), !.changeAge = b.age]
  ELSE b

\* inputSignal.set(v)
SetInput(v) ==
  /\ v # inputSignal
  /\ ~TimerDue
  /\ inputSignal' = v
  /\ effectDirty' = ~destroyed
  /\ searchLast' = "input"
  /\ UNCHANGED <<query, nextValue, shortTimeout, longTimeout, sinceUpdate, sinceFirst, burst,
                 exceptSearch>>

RunEffect ==
  /\ effectDirty
  /\ ~destroyed
  /\ LET r == searchEffect(inputSignal, query, nextValue, shortTimeout, longTimeout)
     IN /\ query' = r.query
        /\ nextValue' = r.nextValue
        /\ shortTimeout' = r.shortTimeout
        /\ longTimeout' = r.longTimeout
        /\ sinceFirst' = IF r.shortTimeout.on
                         THEN (IF sinceFirst < 0 THEN 0 ELSE sinceFirst)
                         ELSE 0 - 1
  /\ burst' = IF IsEmpty(inputSignal) THEN NoBurst
              ELSE IF burst.open /\ sinceUpdate < DebounceDelay THEN burst
              ELSE [open |-> TRUE, age |-> 0, changes |-> 0, changeAge |-> 0, before |-> query]
  /\ effectDirty' = FALSE
  /\ sinceUpdate' = 0
  /\ searchLast' = "effect"
  /\ UNCHANGED <<inputSignal, exceptSearch>>

\* the callback of shortTimeout
DebounceFire ==
  /\ ~effectDirty
  /\ shortTimeout.on /\ shortTimeout.left = 0
  /\ query' = shortTimeout.value
  /\ longTimeout' = clearThrottle(longTimeout)
  /\ shortTimeout' = NoShort
  /\ burst' = Committed(burst, shortTimeout.value)
  /\ sinceFirst' = 0 - 1
  /\ searchLast' = "debounce"
  /\ UNCHANGED <<inputSignal, nextValue, effectDirty, sinceUpdate, exceptSearch>>

\* the callback of longTimeout
ThrottleFire ==
  /\ ~effectDirty
  /\ longTimeout.on /\ longTimeout.left = 0
  /\ query' = nextValue
  /\ longTimeout' = NoLong
  /\ burst' = Committed(burst, nextValue)
  /\ sinceFirst' = 0 - 1
  /\ searchLast' = "throttle"
  /\ UNCHANGED <<inputSignal, nextValue, shortTimeout, effectDirty, sinceUpdate, exceptSearch>>

\* the cleanup of the effect's last run, run when the effect is destroyed:
\* onDestroy(() => clearTimeout(shortTimeout))
destroyEffect(short) == NoShort

\* a destroy callback that leaves the throttle timer running
destroyKeepsThrottle(long) == long

\* onDestroy.onDestroy(() => clearTimeout(longTimeout))
destroyThrottle(long) == NoLong

\* the injector is destroyed: the effect is destroyed with it and the destroy callback runs
Destroy ==
  /\ ~destroyed
  /\ ~TimerDue
  /\ destroyed' = TRUE
  /\ shortTimeout' = destroyEffect(shortTimeout)
  /\ longTimeout' = destroyThrottle(longTimeout)
  /\ effectDirty' = FALSE
  /\ sinceFirst' = 0 - 1
  /\ burst' = NoBurst
  /\ searchLast' = "destroy"
  /\ UNCHANGED <<inputSignal, query, nextValue, sinceUpdate, treeVars, listVars, sourceVars,
                 sortVars, searcherVars, selectionVars, treeStateVars, configVars,
                 treeSelectionVars>>

\* 100 ms pass
Tick ==
  /\ ~effectDirty
  /\ ~TimerDue
  /\ shortTimeout' = IF shortTimeout.on THEN [shortTimeout EXCEPT !.left = @ - 1] ELSE shortTimeout
  /\ longTimeout' = IF longTimeout.on THEN [longTimeout EXCEPT !.left = @ - 1] ELSE longTimeout
  /\ sinceUpdate' = Min(DebounceDelay, sinceUpdate + 1)
  /\ sinceFirst' = IF sinceFirst < 0 THEN sinceFirst ELSE Min(ThrottleDelay + 1, sinceFirst + 1)
  /\ burst' = IF burst.open THEN [burst EXCEPT !.age = Min(ThrottleDelay + 1, @ + 1)] ELSE burst
  /\ searchLast' = "tick"
  /\ UNCHANGED <<inputSignal, query, nextValue, effectDirty, exceptSearch>>

SearchNext ==
  \/ \E v \in SearchValues : SetInput(v)
  \/ RunEffect
  \/ DebounceFire
  \/ ThrottleFire
  \/ Tick

----------------------------------------------------------------------------
\* Searching and sorting

\* Array.prototype.sort with a comparator (a, b) => key(a) - key(b): stable, ascending;
\* keys[i] is the key of list[i]
stableSort(list, keys) ==
  LET n == Len(list)
      pos(i) == Cardinality({j \in 1..n : keys[j] < keys[i] \/ (keys[j] = keys[i] /\ j < i)}) + 1
  IN [p \in 1..n |-> list[CHOOSE i \in 1..n : pos(i) = p]]

Negated(keys) == [i \in 1..Len(keys) |-> 0 - keys[i]]

\* Array.prototype.sort with a comparator that orders the elements consistently: stable
sortedBy(list, Compare(_, _)) ==
  LET n == Len(list)
      pos(i) == Cardinality({j \in 1..n : \/ Compare(list[j], list[i]) < 0
                                          \/ (Compare(list[j], list[i]) = 0 /\ j < i)}) + 1
  IN [p \in 1..n |-> list[CHOOSE i \in 1..n : pos(i) = p]]

\* list.sort(...): the call sorts the list it is given and returns it
sortInPlace(list, sorted) == [result |-> sorted, list |-> sorted]

\* [...list].sort(...) and list.map(...).sort(...): a new array is sorted and returned,
\* `list` is as it was
sortCopy(list, sorted) == [result |-> sorted, list |-> list]

\* Array.prototype.slice(0, limit)
slice(list, limit) == SubSeq(list, 1, Min(limit, Len(list)))

\* Fuse.js is a dependency: the score it gives a record for a query stands in here as
\* a table over the record's number n and the query, with ties and misses; 0 is the
\* best score
QueryLen(q) == CASE q = "a" -> 1 [] q = "ab" -> 2 [] q = "abc" -> 3 [] q = " " -> 1 [] q = " ab " -> 4 [] OTHER -> 0
NoMatch == 3
fuseScore(n, q) == (QueryLen(q) * n) % 4

\* Fuse.search(query, {limit}) with includeScore and shouldSort: the records that match,
\* best score first, in the order of the collection among equal scores
fuseSearch(records, q, limit, Number(_)) ==
  LET matched == SelectSeq(records, LAMBDA x : fuseScore(Number(x), q) # NoMatch)
      hits == [i \in 1..Len(matched) |-> [item |-> matched[i], score |-> fuseScore(Number(matched[i]), q)]]
  IN slice(stableSort(hits, [i \in 1..Len(hits) |-> hits[i].score]), limit)

defaultSorting == [active |-> "", direction |-> "asc"]
Sortings == {defaultSorting, [active |-> "name", direction |-> "asc"],
             [active |-> "name", direction |-> "desc"]}

\* ---- TreeDataSource

\* no folder or item blacklist and no filter service: filterFolders and filterItems return their input
filteredMetaFolders == nestData(baseFolders, baseItems).folders
filteredMetaItems == nestData(baseFolders, baseItems).items

RECURSIVE mapTreeFolder(_, _)
\* mapTreeFolder: the display folder with its items and, recursively, its sub folders
mapTreeFolder(mf, folder) ==
  [id |-> folder,
   items |-> mf[folder].items,
   folders |-> [i \in 1..Len(mf[folder].folders) |-> mapTreeFolder(mf, mf[folder].folders[i])]]

\* mapToTree (no options.folderSort): the folders without parentId, mapped when a treeConfig exists
mapToTree(mfs) ==
  LET root == SelectSeq(mfs, LAMBDA x : x.parentId = Undefined)
      mf == [f \in {mfs[i].id : i \in 1..Len(mfs)} |-> mfs[CHOOSE i \in 1..Len(mfs) : mfs[i].id = f]]
  IN IF ~treeConfig THEN <<>>
     ELSE [i \in 1..Len(root) |-> mapTreeFolder(mf, root[i].id)]

treeData == mapToTree(filteredMetaFolders)

\* mapFoldersForSearch / mapItemsForSearch
preSearchFolders == [i \in 1..Len(filteredMetaFolders) |-> [id |-> filteredMetaFolders[i].id, isFolder |-> TRUE]]
preSearchItems == [i \in 1..Len(filteredMetaItems) |-> [id |-> filteredMetaItems[i].id, isFolder |-> FALSE]]

\* the number of a row in the score table and in the sort data of the column "name"
FolderNumber(id) == CHOOSE i \in 1..Len(FolderName) : FolderName[i] = id
ItemNumber(id) == (CHOOSE i \in 1..Len(ItemName) : ItemName[i] = id) + 1
RowNumber(row) == IF row.isFolder THEN FolderNumber(row.id) ELSE ItemNumber(row.id)

TreeSearchResultLimit == 100

searchFolders(q, limit) ==
  IF IsEmpty(q) THEN <<>>
  ELSE fuseSearch(preSearchFolders, q, IF limit = Undefined THEN TreeSearchResultLimit ELSE limit, RowNumber)

searchItems(q, limit) ==
  IF IsEmpty(q) THEN <<>>
  ELSE fuseSearch(preSearchItems, q, IF limit = Undefined THEN TreeSearchResultLimit ELSE limit, RowNumber)

ItemsOfHits(hits) == [i \in 1..Len(hits) |-> hits[i].item]

\* the merge without its sort
mergedSearchDataUnsorted(q) == ItemsOfHits(searchFolders(q, Undefined) \o searchItems(q, Undefined))

\* [...folderSearchData(), ...itemSearchData()].sort(by score).map(x => x.item), for the query q
mergedSearchData(q) ==
  LET all == searchFolders(q, Undefined) \o searchItems(q, Undefined)
  IN ItemsOfHits(stableSort(all, [i \in 1..Len(all) |-> all[i].score]))

\* sortRows, with the list it was given as the call leaves it: sortLookup holds the
\* column "name", which sorts folders and items by their number
sortRowsCall(list) ==
  LET asIs == [result |-> list, list |-> list]
  IN IF Len(list) = 0 THEN asIs
     ELSE IF treeSorting.active = "" THEN asIs
     ELSE IF treeSorting.direction = "" THEN asIs
     ELSE IF treeSorting.active # "name" THEN asIs
     ELSE LET keys == [i \in 1..Len(list) |-> RowNumber(list[i])]
          IN sortCopy(list, stableSort(list, IF treeSorting.direction = "asc"
                                              THEN keys ELSE Negated(keys)))

\* sortRows without `if (!sortConfig) return list`: every column id sorts as "name"
sortRowsAnyColumn(list) ==
  IF Len(list) = 0 THEN list
  ELSE IF treeSorting.active = "" THEN list
  ELSE IF treeSorting.direction = "" THEN list
  ELSE LET keys == [i \in 1..Len(list) |-> RowNumber(list[i])]
       IN stableSort(list, IF treeSorting.direction = "asc" THEN keys ELSE Negated(keys))

sortRows(list) == sortRowsCall(list).result

\* searchResult (mapSearchRows maps row by row), for the query q
searchResult(q) == sortRows(mergedSearchData(q))

\* TreeDataSource.setSort
SetTreeSort(sort) ==
  /\ treeSorting' = sort
  /\ UNCHANGED <<listSorting, indexSorted, treeVars, listVars, searchVars, sourceVars, standaloneVars>>

----------------------------------------------------------------------------
\* The searchers behind DataSearchService

\* search(query: string, limit?: number): a call with or without a limit
NoLimit == [given |-> FALSE, n |-> 0]
Limit(n) == [given |-> TRUE, n |-> n]
Limits == {NoLimit} \cup {Limit(n) : n \in 0..MaxLimit}

\* Array.prototype.slice(0, limit) with limit possibly undefined
sliceTo(list, limit) == IF limit.given THEN slice(list, limit.n) ELSE list

SearcherRecords == {RecordName[i] : i \in 1..MaxRecords}

\* the collections a searcher is populated with: the records in any order
Collections ==
  {c \in UNION {[1..n -> SearcherRecords] : n \in 0..MaxRecords} :
     \A i \in DOMAIN c, j \in DOMAIN c : c[i] = c[j] => i = j}

SearcherQueries == SearchValues \cup {" ", " ab "}

\* strings as their characters
Chars(str) ==
  CASE str = "a" -> <<"a">>
    [] str = "ab" -> <<"a", "b">>
    [] str = "abc" -> <<"a", "b", "c">>
    [] str = " " -> <<" ">>
    [] str = " ab " -> <<" ", "a", "b", " ">>
    [] OTHER -> <<>>

\* the value of the one search key of a record
KeyValue(record) ==
  CASE record = "R1" -> <<"c", "a", "b">>
    [] record = "R2" -> <<"a", "b", "c">>
    [] record = "R3" -> <<"b">>
    [] OTHER -> <<"a", "b">>

RecordNumber(record) == CHOOSE i \in 1..Len(RecordName) : RecordName[i] = record

RECURSIVE trimStart(_)
trimStart(chars) ==
  IF Len(chars) > 0 /\ Head(chars) = " " THEN trimStart(Tail(chars)) ELSE chars

RECURSIVE trimEnd(_)
trimEnd(chars) ==
  IF Len(chars) > 0 /\ chars[Len(chars)] = " " THEN trimEnd(SubSeq(chars, 1, Len(chars) - 1)) ELSE chars

\* String.prototype.trim
trim(chars) == trimEnd(trimStart(chars))

\* String.prototype.startsWith / includes
startsWith(str, q) == Len(q) <= Len(str) /\ SubSeq(str, 1, Len(q)) = q
includes(str, q) == \E i \in 0..(Len(str) - Len(q)) : SubSeq(str, i + 1, i + Len(q)) = q

\* the numbering of the empty-query branch starting at one
searchAllFromOne(list, limit) ==
  sliceTo([i \in 1..Len(list) |-> [value |-> list[i], score |-> i]], limit)

\* collection.map((value, i) => ({value, score: i})).slice(0, limit)
searchAll(list, limit) ==
  sliceTo([i \in 1..Len(list) |-> [value |-> list[i], score |-> i - 1]], limit)

\* FuseSearcher.search(query, limit)
fuseSearcherSearch(items, q, limit) ==
  IF IsEmpty(q) THEN searchAll(items, limit)
  ELSE LET hits == fuseSearch(items, q, IF limit.given THEN limit.n ELSE Len(items), RecordNumber)
       IN [i \in 1..Len(hits) |-> [value |-> hits[i].item, score |-> hits[i].score]]

\* SimpleSearcher.search(query, limit), one key of weight 1; the scores are in fifths
\* (startsWith: weight, includes: weight * 0.8, negated)
simpleSearcherSearch(items, q, limit) ==
  LET trimmed == IF q = Undefined THEN Undefined ELSE trim(Chars(q))
  IN IF trimmed = Undefined THEN searchAll(items, limit)
     ELSE IF Len(trimmed) = 0 THEN searchAll(items, limit)
     ELSE LET result == [i \in 1..Len(items) |->
                          [value |-> items[i],
                           score |-> 0 - (IF startsWith(KeyValue(items[i]), trimmed) THEN 5
                                          ELSE IF includes(KeyValue(items[i]), trimmed) THEN 4
                                          ELSE 0)]]
          IN sliceTo(stableSort(result, [i \in 1..Len(result) |-> result[i].score]), limit)

NoSearchCall == [query |-> Undefined, limit |-> NoLimit, fuse |-> <<>>, simple |-> <<>>, called |-> FALSE]

\* populate(items) on both searchers
Populate(items) ==
  /\ collection' = items
  /\ searchCall' = NoSearchCall
  /\ UNCHANGED exceptSearcher

\* search(query, limit) on both searchers
Search(q, limit) ==
  /\ searchCall' = [query |-> q, limit |-> limit,
                    fuse |-> fuseSearcherSearch(collection, q, limit),
                    simple |-> simpleSearcherSearch(collection, q, limit),
                    called |-> TRUE]
  /\ UNCHANGED <<collection, exceptSearcher>>

SearcherNext ==
  \/ \E items \in Collections : Populate(items)
  \/ \E q \in SearcherQueries, limit \in Limits : Search(q, limit)

----------------------------------------------------------------------------
\* ListDataSource: the search and sort pipeline behind displayData

ListSearchResultLimit == 200

\* the sort data of the one sortable column "name"
RecordSortKey(record) == (RecordNumber(record) * 2) % 5

ListSortings == Sortings \cup {[active |-> "other", direction |-> "asc"]}

\* the `index` of the records (ISorted)
RecordIndex(record) == (RecordNumber(record) * 3) % 7

\* lib/index-sort: (a?.index ?? 0) - (a?.index ?? 0)
sortByIndexAsc(a, b) == RecordIndex(a) - RecordIndex(a)

\* indexSort, with the list it was given as the call leaves it
indexSortCall(list) ==
  IF ~indexSorted THEN [result |-> list, list |-> list]
  ELSE sortCopy(list, sortedBy(list, sortByIndexAsc))

indexSort(list) == indexSortCall(list).result

\* sortItems sorting by the column "name" whatever the active sort is
sortItemsAlways(list) ==
  LET keys == [i \in 1..Len(list) |-> RecordSortKey(list[i])]
  IN stableSort(list, IF listSorting.direction = "desc" THEN Negated(keys) ELSE keys)

\* sortItems, with the list it was given as the call leaves it: sortLookup holds the
\* column "name"
sortItemsCall(list) ==
  IF listSorting.active = "" \/ listSorting.direction = "" THEN indexSortCall(list)
  ELSE IF listSorting.active # "name" THEN indexSortCall(list)
  ELSE LET keys == [i \in 1..Len(list) |-> RecordSortKey(list[i])]
       IN sortCopy(list, stableSort(list, IF listSorting.direction = "asc"
                                           THEN keys ELSE Negated(keys)))

sortItems(list) == sortItemsCall(list).result

processedItems == sortItems(filteredItems)

\* mapToSearch over the sorted list
preSearchDataSorted == [i \in 1..Len(processedItems) |-> [model |-> processedItems[i]]]

\* preSearchData = mapToSearch(filteredItems())
preSearchData == [i \in 1..Len(filteredItems) |-> [model |-> filteredItems[i]]]

SearchRecordNumber(x) == RecordNumber(x.model)

\* search(query, limit)
search(q, limit) ==
  IF IsEmpty(q) THEN [i \in 1..Len(preSearchData) |-> preSearchData[i].model]
  ELSE LET result == fuseSearch(preSearchData, q,
                                IF limit = Undefined THEN ListSearchResultLimit ELSE limit,
                                SearchRecordNumber)
       IN [i \in 1..Len(result) |-> result[i].item.model]

\* searching = computed(() => !!query()?.length)
searching == ~IsEmpty(query)

searchData == search(query, Undefined)
data == processedItems
displayData == IF searching THEN searchData ELSE data

\* setSort() without a sort
NoSort == [active |-> Undefined, direction |-> Undefined]

\* ListDataSource.setSort(sort?)
SetSort(sort) ==
  /\ listSorting' = (IF sort = NoSort THEN defaultSorting ELSE sort)
  /\ UNCHANGED <<treeSorting, indexSorted, treeVars, listVars, searchVars, sourceVars, standaloneVars>>

\* paginatedItems = computed(() => this.paginate(this.processedItems()))
paginatedItems == paginate(processedItems)

DisplayQueries == {"", "ab"}

DisplayNext ==
  \/ ListSetItemsAdd
  \/ ListSetItemsRemove
  \/ \E hideId \in HideIds : SetFilterState(hideId)
  \/ \E sort \in ListSortings \cup {NoSort} : SetSort(sort)
  \/ \E v \in DisplayQueries : SetInput(v)
  \/ RunEffect
  \/ DebounceFire
  \/ ThrottleFire
  \/ Tick

----------------------------------------------------------------------------
\* TreeItemSelection: the single selection of a tree

\* datasource.baseItemLookup().get(id)?.folderId
baseItemFolderId(id) ==
  IF \E i \in 1..Len(baseItems) : baseItems[i].id = id
  THEN baseItems[CHOOSE i \in 1..Len(baseItems) : baseItems[i].id = id].folderId
  ELSE Undefined

\* itemId = computed(() => this._folderId() ? undefined : this._itemId())
selectionItemIdOf(folderSignal, itemSignal) ==
  IF folderSignal # Undefined THEN Undefined ELSE itemSignal

\* folderId = computed(() => this._folderId() ?? this.baseItem()?.folderId)
selectionFolderIdOf(folderSignal, itemSignal) ==
  IF folderSignal # Undefined THEN folderSignal
  ELSE IF selectionItemIdOf(folderSignal, itemSignal) = Undefined THEN Undefined
  ELSE baseItemFolderId(selectionItemIdOf(folderSignal, itemSignal))

selectionItemId == selectionItemIdOf(folderIdSignal, itemIdSignal)
selectionFolderId == selectionFolderIdOf(folderIdSignal, itemIdSignal)

\* setFolder(value) / setItem(value): the new [folder, item] signals
setFolder(value) == [folder |-> value, item |-> Undefined]
setItem(value) == [folder |-> Undefined, item |-> value]

\* ITreeSelection.toggleFolder(folder, state): the new signals and the returned value
selectionToggleFolder(folder, state) ==
  LET unchanged == [folder |-> folderIdSignal, item |-> itemIdSignal]
  IN IF selectionFolderId = folder
     THEN IF state = "true" THEN [signals |-> unchanged, value |-> Undefined]
          ELSE [signals |-> setFolder(folder), value |-> "false"]
     ELSE IF state = "false" THEN [signals |-> unchanged, value |-> Undefined]
          ELSE [signals |-> setFolder(folder), value |-> "true"]

\* ITreeSelection.toggleItem(item, state)
selectionToggleItem(item, state) ==
  LET unchanged == [folder |-> folderIdSignal, item |-> itemIdSignal]
  IN IF selectionItemId = item
     THEN IF state = "true" THEN [signals |-> unchanged, value |-> Undefined]
          ELSE [signals |-> setItem(item), value |-> "false"]
     ELSE IF state = "false" THEN [signals |-> unchanged, value |-> Undefined]
          ELSE [signals |-> setItem(item), value |-> "true"]

NoSelectionCall == [kind |-> "none", target |-> Undefined, state |-> Undefined, value |-> Undefined,
                    folderBefore |-> Undefined, itemBefore |-> Undefined]

SelectionToggleFolder(folder, state) ==
  LET r == selectionToggleFolder(folder, state)
  IN /\ folderIdSignal' = r.signals.folder
     /\ itemIdSignal' = r.signals.item
     /\ selectionCall' = [kind |-> "folder", target |-> folder, state |-> state, value |-> r.value,
                          folderBefore |-> selectionFolderId, itemBefore |-> selectionItemId]
     /\ UNCHANGED <<treeVars, exceptSelection>>

SelectionToggleItem(item, state) ==
  LET r == selectionToggleItem(item, state)
  IN /\ folderIdSignal' = r.signals.folder
     /\ itemIdSignal' = r.signals.item
     /\ selectionCall' = [kind |-> "item", target |-> item, state |-> state, value |-> r.value,
                          folderBefore |-> selectionFolderId, itemBefore |-> selectionItemId]
     /\ UNCHANGED <<treeVars, exceptSelection>>

\* clear()
SelectionClear ==
  /\ folderIdSignal' = Undefined
  /\ itemIdSignal' = Undefined
  /\ selectionCall' = NoSelectionCall
  /\ UNCHANGED <<treeVars, exceptSelection>>

\* the items of the data source change under the selection
SelectionSetItemsAdd(folder) ==
  /\ Len(itemsIn) < MaxItems
  /\ itemsIn' = Append(itemsIn, [id |-> NextItemId, folder |-> folder])
  /\ selectionCall' = NoSelectionCall
  /\ UNCHANGED <<folders, folderParentId, itemIds, rangeCall, folderIdSignal, itemIdSignal, exceptSelection>>

SelectionNext ==
  \/ \E folder \in FolderIds, state \in ToggleStates : SelectionToggleFolder(folder, state)
  \/ \E item \in ItemIds, state \in ToggleStates : SelectionToggleItem(item, state)
  \/ SelectionClear
  \/ \E folder \in FolderIds : SelectionSetItemsAdd(folder)

----------------------------------------------------------------------------
\* TreeSelection: the single selection of a folder and of an item inside it

NoTreeItem == [exposed |-> FALSE, id |-> Undefined, folderId |-> Undefined]

\* baseFolder = computed(() => datasource.baseFolderLookup().get(this.folderId())): its model.id
selectedBaseFolderId(folderSignal) ==
  IF folderSignal = Undefined THEN Undefined
  ELSE IF \E i \in 1..Len(baseFolders) : baseFolders[i].id = folderSignal THEN folderSignal
  ELSE Undefined

\* baseItem without the comparison of the item's folder with the selected folder
selectedBaseItemOfAnyFolder(folderSignal, itemSignal) ==
  IF itemSignal = Undefined THEN NoTreeItem
  ELSE IF ~\E i \in 1..Len(baseItems) : baseItems[i].id = itemSignal THEN NoTreeItem
  ELSE IF selectedBaseFolderId(folderSignal) = Undefined THEN NoTreeItem
  ELSE [exposed |-> TRUE, id |-> itemSignal, folderId |-> baseItemFolderId(itemSignal)]

\* baseItem = computed(...): the selected item, exposed only inside the selected folder
selectedBaseItem(folderSignal, itemSignal) ==
  IF itemSignal = Undefined THEN NoTreeItem
  ELSE IF ~\E i \in 1..Len(baseItems) : baseItems[i].id = itemSignal THEN NoTreeItem
  ELSE IF selectedBaseFolderId(folderSignal) = Undefined THEN NoTreeItem
  ELSE IF baseItemFolderId(itemSignal) # selectedBaseFolderId(folderSignal) THEN NoTreeItem
  ELSE [exposed |-> TRUE, id |-> itemSignal, folderId |-> baseItemFolderId(itemSignal)]

\* item = computed(() => this.baseItem()?.model)
selectedItem(folderSignal, itemSignal) == selectedBaseItem(folderSignal, itemSignal)

\* metaItem = computed(...): the same through datasource.metaItemLookup()
selectedMetaItem(folderSignal, itemSignal) ==
  IF itemSignal = Undefined THEN NoTreeItem
  ELSE IF selectedBaseFolderId(folderSignal) = Undefined THEN NoTreeItem
  ELSE IF ~\E i \in 1..Len(metaItems) : metaItems[i].id = itemSignal THEN NoTreeItem
  ELSE LET item == metaItems[CHOOSE i \in 1..Len(metaItems) : metaItems[i].id = itemSignal]
       IN IF item.folderId # selectedBaseFolderId(folderSignal) THEN NoTreeItem
          ELSE [exposed |-> TRUE, id |-> item.id, folderId |-> item.folderId]

\* the values setItem accepts: an id (string or WithId), or a tree item carrying a folderId
NoTreeItemValue == [id |-> Undefined, folderId |-> Undefined]
TreeItemValues ==
  {NoTreeItemValue} \cup [id : ItemIds, folderId : FolderIds \cup {Undefined}]

\* TreeSelection.setFolder(value): the new [folder, item] signals
treeSelectionSetFolder(value) == [folder |-> value, item |-> Undefined]

\* TreeSelection.setItem(value)
treeSelectionSetItem(value) ==
  [folder |-> IF value.folderId = Undefined /\ value.id # Undefined
              THEN baseItemFolderId(value.id) ELSE value.folderId,
   item |-> value.id]

\* ITreeSelection.toggleFolder(folder, state) on a TreeSelection
treeSelectionToggleFolder(folder, state) ==
  LET unchanged == [folder |-> selectedFolderId, item |-> selectedItemId]
  IN IF selectedFolderId = folder
     THEN IF state = "true" THEN unchanged ELSE treeSelectionSetFolder(folder)
     ELSE IF state = "false" THEN unchanged ELSE treeSelectionSetFolder(folder)

\* ITreeSelection.toggleItem(item, state) on a TreeSelection
treeSelectionToggleItem(item, state) ==
  LET unchanged == [folder |-> selectedFolderId, item |-> selectedItemId]
      value == [id |-> item, folderId |-> Undefined]
  IN IF selectedItemId = item
     THEN IF state = "true" THEN unchanged ELSE treeSelectionSetItem(value)
     ELSE IF state = "false" THEN unchanged ELSE treeSelectionSetItem(value)

TreeSelectionSetFolder(value) ==
  /\ selectedFolderId' = treeSelectionSetFolder(value).folder
  /\ selectedItemId' = treeSelectionSetFolder(value).item
  /\ UNCHANGED exceptTreeSelection

TreeSelectionSetItem(value) ==
  /\ selectedFolderId' = treeSelectionSetItem(value).folder
  /\ selectedItemId' = treeSelectionSetItem(value).item
  /\ UNCHANGED exceptTreeSelection

TreeSelectionToggleFolder(folder, state) ==
  /\ selectedFolderId' = treeSelectionToggleFolder(folder, state).folder
  /\ selectedItemId' = treeSelectionToggleFolder(folder, state).item
  /\ UNCHANGED exceptTreeSelection

TreeSelectionToggleItem(item, state) ==
  /\ selectedFolderId' = treeSelectionToggleItem(item, state).folder
  /\ selectedItemId' = treeSelectionToggleItem(item, state).item
  /\ UNCHANGED exceptTreeSelection

\* clear() and clearFolder()
TreeSelectionClear ==
  /\ selectedFolderId' = Undefined
  /\ selectedItemId' = Undefined
  /\ UNCHANGED exceptTreeSelection

\* clearItem()
TreeSelectionClearItem ==
  /\ selectedItemId' = Undefined
  /\ UNCHANGED <<selectedFolderId, exceptTreeSelection>>

\* the selection operations, and the folders and items of the data source
\* changing under the selection
TreeSelectionNext ==
  \/ \E value \in FolderIds \cup {Undefined} : TreeSelectionSetFolder(value)
  \/ \E value \in TreeItemValues : TreeSelectionSetItem(value)
  \/ \E folder \in FolderIds, state \in ToggleStates : TreeSelectionToggleFolder(folder, state)
  \/ \E item \in ItemIds, state \in ToggleStates : TreeSelectionToggleItem(item, state)
  \/ TreeSelectionClear
  \/ TreeSelectionClearItem
  \/ SetFoldersAdd(Undefined)
  \/ SetFoldersRemove
  \/ \E folder \in FolderIds : SetItemsAdd(folder)
  \/ SetItemsRemove

----------------------------------------------------------------------------
\* BaseTreeState: the open folders of a tree

RECURSIVE closeFolderIn(_, _, _)
RECURSIVE closeSubFolders(_, _, _)

\* _closeFolder(set, folder): the set after the call
closeFolderIn(mf, set, folder) ==
  IF folder \notin set THEN set
  ELSE closeSubFolders(mf, set \ {folder}, mf[folder].folders)

\* the loop of _closeFolder over folder.folders
closeSubFolders(mf, set, subs) ==
  IF Len(subs) = 0 THEN set
  ELSE closeSubFolders(mf, closeFolderIn(mf, set, Head(subs)), Tail(subs))

\* closeFolder(folder): the open folders after the call
closeFolder(folder) == closeFolderIn(metaFolderLookup, openFolders, folder)

\* openFolderPath(folder, includeFolder): the open folders after the call
openFolderPath(folder, includeFolder) ==
  openFolders \cup (IF includeFolder THEN {folder} ELSE {}) \cup Range(metaFolderLookup[folder].path)

CloseFolder(folder) ==
  /\ folder \in DOMAIN metaFolderLookup
  /\ openFolders' = closeFolder(folder)
  /\ UNCHANGED exceptTreeState

OpenFolderPath(folder, includeFolder) ==
  /\ folder \in DOMAIN metaFolderLookup
  /\ openFolders' = openFolderPath(folder, includeFolder)
  /\ UNCHANGED exceptTreeState

\* setOpenFolders(folders)
SetOpenFolders(list) ==
  /\ openFolders' = list
  /\ UNCHANGED exceptTreeState

\* closeFolders()
CloseFolders ==
  /\ openFolders' = {}
  /\ UNCHANGED exceptTreeState

TreeStateNext ==
  \/ \E parent \in FolderIds \cup {Undefined} : SetFoldersAdd(parent)
  \/ SetFoldersRemove
  \/ \E folder \in FolderIds : CloseFolder(folder)
  \/ \E folder \in FolderIds, includeFolder \in BOOLEAN : OpenFolderPath(folder, includeFolder)
  \/ \E list \in SUBSET FolderIds : SetOpenFolders(list)
  \/ CloseFolders

----------------------------------------------------------------------------
\* Detached search feeds

NoRowConfig == [list |-> FALSE, grid |-> FALSE, tree |-> FALSE]
RowConfigs == [list : BOOLEAN, grid : BOOLEAN, tree : BOOLEAN]

DefaultDetachedLimit == 20
DetachedLimits == {1, DefaultDetachedLimit}
DetachedQueries == {"", "ab"}

NoDetachedCall == [kind |-> "none", threw |-> FALSE, query |-> "", rows |-> <<>>]

\* the feed of ListDataSource.getDetachedSearch read with the query q; firstLine and
\* title name a record by its id
detachedSearch(q, limit) ==
  IF IsEmpty(q) THEN <<>>
  ELSE LET result == fuseSearch(preSearchData, q, limit, SearchRecordNumber)
       IN [i \in 1..Len(result) |->
             [id |-> result[i].item.model, name |-> result[i].item.model, score |-> result[i].score]]

\* ListDataSource.getDetachedSearch(searchQuery, limit)
getDetachedSearch(q, limit) ==
  IF ~listConfig /\ ~gridConfig
  THEN [kind |-> "list", threw |-> TRUE, query |-> q, rows |-> <<>>]
  ELSE [kind |-> "list", threw |-> FALSE, query |-> q, rows |-> detachedSearch(q, limit)]

\* the rows of a tree feed: treeConfig?.folderName(...) ?? 'N/A'
detachedTreeRows(result) ==
  [i \in 1..Len(result) |->
     [id |-> result[i].item.id,
      name |-> IF treeConfig THEN result[i].item.id ELSE "N/A",
      score |-> result[i].score]]

\* TreeDataSource.getDetachedFolderSearch(searchQuery, limit)
getDetachedFolderSearch(q, limit) ==
  [kind |-> "folder", threw |-> FALSE, query |-> q,
   rows |-> IF IsEmpty(q) THEN <<>>
            ELSE detachedTreeRows(fuseSearch(preSearchFolders, q, limit, RowNumber))]

\* TreeDataSource.getDetachedItemSearch(searchQuery, limit)
getDetachedItemSearch(q, limit) ==
  [kind |-> "item", threw |-> FALSE, query |-> q,
   rows |-> IF IsEmpty(q) THEN <<>>
            ELSE detachedTreeRows(fuseSearch(preSearchItems, q, limit, RowNumber))]

GetDetachedSearch(q, limit) ==
  /\ detachedCall' = getDetachedSearch(q, limit)
  /\ UNCHANGED exceptDetached

GetDetachedFolderSearch(q, limit) ==
  /\ detachedCall' = getDetachedFolderSearch(q, limit)
  /\ UNCHANGED exceptDetached

GetDetachedItemSearch(q, limit) ==
  /\ detachedCall' = getDetachedItemSearch(q, limit)
  /\ UNCHANGED exceptDetached

DetachedNext ==
  \/ \E q \in DetachedQueries, limit \in DetachedLimits : GetDetachedSearch(q, limit)
  \/ \E q \in DetachedQueries, limit \in DetachedLimits : GetDetachedFolderSearch(q, limit)
  \/ \E q \in DetachedQueries, limit \in DetachedLimits : GetDetachedItemSearch(q, limit)
  \/ ListSetItemsAdd
  \/ SetFoldersAdd(Undefined)
  \/ \E folder \in FolderIds : SetItemsAdd(folder)

----------------------------------------------------------------------------
\* The observable sources: sources$.pipe(switchMap(x => x ?? EMPTY),
\* takeUntilDestroyed, catchError(() => of([]))).subscribe(val => set(val))

NoSourceEvent == [kind |-> "none", pipe |-> "none", before |-> 0]

Next(value) == [kind |-> "next", value |-> value]
Error == [kind |-> "error", value |-> <<>>]
Complete == [kind |-> "complete", value |-> <<>>]

\* the pipe without catchError: every notification passes
passThrough(notification) == <<notification>>

\* catchError(() => of([])): an error is replaced by of([]), which emits [] and completes
catchError(notification) ==
  IF notification.kind = "error" THEN <<Next(<<>>), Complete>> ELSE <<notification>>

RECURSIVE subscribe(_, _)
\* the subscriber `val => set(val)` (no error callback) taking the notifications in order
subscribe(cur, notifications) ==
  IF Len(notifications) = 0 \/ cur.pipe = "closed" THEN cur
  ELSE LET n == Head(notifications)
           after == IF n.kind = "next" THEN [cur EXCEPT !.value = n.value]
                    ELSE IF n.kind = "error" THEN [cur EXCEPT !.pipe = "closed", !.error = TRUE]
                    ELSE [cur EXCEPT !.pipe = "closed"]
       IN subscribe(after, Tail(notifications))

\* a notification of the inner observable, through switchMap and catchError, to the subscriber;
\* the completion of the inner observable alone does not complete switchMap
sourceEvent(pipe, value, event) ==
  IF pipe # "live" THEN [value |-> value, pipe |-> pipe, error |-> sourceError]
  ELSE IF event.kind = "complete" THEN [value |-> value, pipe |-> "idle", error |-> sourceError]
  ELSE subscribe([value |-> value, pipe |-> pipe, error |-> sourceError], catchError(event))

\* sources$.next(observable): switchMap subscribes to the new observable while the pipe lives
setSource(pipe) == IF pipe = "closed" THEN pipe ELSE "live"

\* the lists the sources of the model emit
SourceFolderList == <<[id |-> "F1", parent |-> Undefined], [id |-> "F2", parent |-> "F1"]>>
SourceItemList == <<[id |-> "I1", folder |-> "F1"], [id |-> "I2", folder |-> "F2"]>>
SourceFolders == {SubSeq(SourceFolderList, 1, n) : n \in 0..Len(SourceFolderList)}
SourceItems == {SubSeq(SourceItemList, 1, n) : n \in 0..Len(SourceItemList)}
SourceRecords == {SubSeq(RecordName, 1, n) : n \in 0..MaxListLen}
SourceEvents(values) == {Next(v) : v \in values} \cup {Error, Complete}

\* setFolders(folders$)
SetFoldersSource ==
  /\ folderPipe' = setSource(folderPipe)
  /\ sourceLast' = NoSourceEvent
  /\ UNCHANGED <<itemPipe, listPipe, sourceError, treeVars, listVars, searchVars, sortVars, standaloneVars>>

\* setItems(items$)
SetItemsSource ==
  /\ itemPipe' = setSource(itemPipe)
  /\ sourceLast' = NoSourceEvent
  /\ UNCHANGED <<folderPipe, listPipe, sourceError, treeVars, listVars, searchVars, sortVars, standaloneVars>>

\* setItems$(items$)
ListSetItemsSource ==
  /\ listPipe' = setSource(listPipe)
  /\ sourceLast' = NoSourceEvent
  /\ UNCHANGED <<folderPipe, itemPipe, sourceError, treeVars, listVars, searchVars, sortVars, standaloneVars>>

FolderSourceEvent(event) ==
  /\ folderPipe = "live"
  /\ LET r == sourceEvent(folderPipe, folders, event)
     IN /\ folders' = r.value
        /\ folderPipe' = r.pipe
        /\ sourceError' = r.error
  /\ rangeCall' = Undefined
  /\ sourceLast' = [kind |-> event.kind, pipe |-> "folders", before |-> Len(folders)]
  /\ UNCHANGED <<itemsIn, folderParentId, itemIds, itemPipe, listPipe, listVars, searchVars, sortVars, standaloneVars>>

ItemSourceEvent(event) ==
  /\ itemPipe = "live"
  /\ LET r == sourceEvent(itemPipe, itemsIn, event)
     IN /\ itemsIn' = r.value
        /\ itemPipe' = r.pipe
        /\ sourceError' = r.error
  /\ rangeCall' = Undefined
  /\ sourceLast' = [kind |-> event.kind, pipe |-> "items", before |-> Len(itemsIn)]
  /\ UNCHANGED <<folders, folderParentId, itemIds, folderPipe, listPipe, listVars, searchVars, sortVars, standaloneVars>>

ListSourceEvent(event) ==
  /\ listPipe = "live"
  /\ LET r == sourceEvent(listPipe, listItems, event)
     IN /\ listItems' = r.value
        /\ listPipe' = r.pipe
        /\ sourceError' = r.error
  /\ pageLast' = NoPageRun
  /\ sourceLast' = [kind |-> event.kind, pipe |-> "list", before |-> Len(listItems)]
  /\ UNCHANGED <<blacklist, filterState, page, seenLength, pageTracked, pageNotified,
                 folderPipe, itemPipe, treeVars, searchVars, sortVars, standaloneVars>>

SourceNext ==
  \/ SetFoldersSource
  \/ SetItemsSource
  \/ ListSetItemsSource
  \/ \E event \in SourceEvents(SourceFolders) : FolderSourceEvent(event)
  \/ \E event \in SourceEvents(SourceItems) : ItemSourceEvent(event)
  \/ \E event \in SourceEvents(SourceRecords) : ListSourceEvent(event)

----------------------------------------------------------------------------
\* The state after construction: an empty tree source with or without
\* folderParentId, an empty list source with options.pageSize, and
\* const query = signal(inputSignal()) with the effect scheduled for its first run
Init(parentIdOptions, pageSizes, filterServices, rowConfigs, indexSortedOptions) ==
  /\ folders = <<>>
  /\ itemsIn = <<>>
  /\ folderParentId \in parentIdOptions
  /\ itemIds = {}
  /\ rangeCall = Undefined
  /\ listItems = <<>>
  /\ blacklist = {}
  /\ \E service \in filterServices : filterState = [service |-> service, hideId |-> Undefined]
  /\ \E size \in pageSizes : page = [page |-> 0, pageSize |-> size]
  /\ seenLength = 0 - 1
  /\ pageTracked = FALSE
  /\ pageNotified = FALSE
  /\ pageLast = NoPageRun
  /\ inputSignal = Undefined
  /\ query = Undefined
  /\ nextValue = Undefined
  /\ shortTimeout = NoShort
  /\ longTimeout = NoLong
  /\ effectDirty = TRUE
  /\ searchLast = "none"
  /\ sinceUpdate = DebounceDelay
  /\ sinceFirst = 0 - 1
  /\ burst = NoBurst
  /\ folderPipe = "idle"
  /\ itemPipe = "idle"
  /\ listPipe = "idle"
  /\ sourceError = FALSE
  /\ sourceLast = NoSourceEvent
  /\ treeSorting = defaultSorting
  /\ listSorting = defaultSorting
  /\ indexSorted \in indexSortedOptions
  /\ collection = <<>>
  /\ searchCall = NoSearchCall
  /\ folderIdSignal = Undefined
  /\ itemIdSignal = Undefined
  /\ selectionCall = NoSelectionCall
  /\ openFolders = {}
  /\ \E config \in rowConfigs :
       /\ listConfig = config.list
       /\ gridConfig = config.grid
       /\ treeConfig = config.tree
  /\ detachedCall = NoDetachedCall
  /\ destroyed = FALSE
  /\ selectedFolderId = Undefined
  /\ selectedItemId = Undefined

TreeNext ==
  \/ \E parent \in FolderIds \cup {Undefined} : SetFoldersAdd(parent)
  \/ SetFoldersRemove
  \/ \E folder \in FolderIds : SetItemsAdd(folder)
  \/ SetItemsRemove
  \/ \E folder \in FolderIds, state \in ToggleStates, shallow \in BOOLEAN :
       ToggleFolder(folder, state, shallow)
  \/ \E itemId \in ItemIds, state \in ToggleStates : ToggleItem(itemId, state)
  \/ \E list \in SUBSET ItemIds : SetRange(list)
  \/ Clear

SpecTree == Init(BOOLEAN, {1}, {FALSE}, {NoRowConfig}, {FALSE}) /\ [][TreeNext]_vars

\* The hierarchy builder alone: the selection never feeds back into it
NestNext ==
  \/ \E parent \in FolderIds \cup {Undefined} : SetFoldersAdd(parent)
  \/ SetFoldersRemove
  \/ \E folder \in FolderIds : SetItemsAdd(folder)
  \/ SetItemsRemove

SpecNest == Init(BOOLEAN, {1}, {FALSE}, {NoRowConfig}, {FALSE}) /\ [][NestNext]_vars

\* The hierarchy builder and the tree output, with and without a treeConfig
SpecTreeOutput ==
  Init(BOOLEAN, {1}, {FALSE}, [list : {FALSE}, grid : {FALSE}, tree : BOOLEAN], {FALSE}) /\ [][NestNext]_vars

\* List and tree source under their sortings, index-sorted or not
SortNext ==
  \/ ListSetItemsAdd
  \/ ListSetItemsRemove
  \/ \E hideId \in HideIds : SetFilterState(hideId)
  \/ \E sort \in ListSortings \cup {NoSort} : SetSort(sort)
  \/ SetFoldersAdd(Undefined)
  \/ \E folder \in FolderIds : SetItemsAdd(folder)
  \/ \E sort \in ListSortings : SetTreeSort(sort)

SpecSort == Init({FALSE}, {1}, {TRUE}, {NoRowConfig}, BOOLEAN) /\ [][SortNext]_vars

SpecList == Init({FALSE}, 1..MaxPageSize, BOOLEAN, {NoRowConfig}, {FALSE}) /\ [][ListNext]_vars

SpecSearch == Init({FALSE}, {1}, {FALSE}, {NoRowConfig}, {FALSE}) /\ [][SearchNext]_vars

\* The hierarchy with the sorting of the tree source
TreeSearchNext ==
  \/ NestNext
  \/ \E sort \in Sortings : SetTreeSort(sort)

\* searchSignal until and after the injector is destroyed
DisposeNext ==
  \/ \E v \in SearchValues : SetInput(v)
  \/ RunEffect
  \/ DebounceFire
  \/ ThrottleFire
  \/ Tick
  \/ Destroy

SpecDispose == Init({FALSE}, {1}, {FALSE}, {NoRowConfig}, {FALSE}) /\ [][DisposeNext]_vars

SpecTreeSearch == Init(BOOLEAN, {1}, {FALSE}, {NoRowConfig}, {FALSE}) /\ [][TreeSearchNext]_vars

SpecSource == Init({TRUE}, {1}, {FALSE}, {NoRowConfig}, {FALSE}) /\ [][SourceNext]_vars

SpecSearcher == Init({FALSE}, {1}, {FALSE}, {NoRowConfig}, {FALSE}) /\ [][SearcherNext]_vars

SpecDisplay == Init({FALSE}, {1}, {TRUE}, {NoRowConfig}, {FALSE}) /\ [][DisplayNext]_vars

SpecSelection == Init({FALSE}, {1}, {FALSE}, {NoRowConfig}, {FALSE}) /\ [][SelectionNext]_vars

SpecTreeSelection == Init({FALSE}, {1}, {FALSE}, {NoRowConfig}, {FALSE}) /\ [][TreeSelectionNext]_vars

SpecTreeState == Init({TRUE}, {1}, {FALSE}, {NoRowConfig}, {FALSE}) /\ [][TreeStateNext]_vars

SpecDetached == Init({FALSE}, {1}, {FALSE}, RowConfigs, {FALSE}) /\ [][DetachedNext]_vars

\* The display pipeline of a list source with or without a filter service
SpecPipeline == Init({FALSE}, {1}, BOOLEAN, {NoRowConfig}, {FALSE}) /\ [][DisplayNext]_vars

\* The list source under its blacklist, its filter, its sorting and its page
BlacklistNext ==
  \/ ListSetItemsAdd
  \/ ListSetItemsRemove
  \/ \E id \in RecordIds : SetBlacklist(id)
  \/ \E hideId \in HideIds : SetFilterState(hideId)
  \/ \E sort \in Sortings : SetSort(sort)
  \/ \E pageIndex \in 0..MaxPageIndex : SetPage(page.pageSize, pageIndex)

SpecBlacklist == Init({FALSE}, {MaxPageSize}, {TRUE}, {NoRowConfig}, {FALSE}) /\ [][BlacklistNext]_vars

----------------------------------------------------------------------------
\* What the claims speak of, stated from the data alone

PresentFolders == {folders[j].id : j \in 1..Len(folders)}

\* the parent id a folder declares (Undefined for a root, or for an id that names no folder)
ParentOf(f) ==
  IF folderParentId /\ \E j \in 1..Len(folders) : folders[j].id = f
  THEN folders[CHOOSE j \in 1..Len(folders) : folders[j].id = f].parent
  ELSE Undefined

RECURSIVE Climb(_, _)
\* the n-th ancestor id of f along the parent links
Climb(f, n) == IF n = 0 \/ f = Undefined THEN f ELSE Climb(ParentOf(f), n - 1)

\* f's chain of parent links ends at a root folder
ReachableFromRoot(f) ==
  /\ f \in PresentFolders
  /\ \E n \in 0..Len(folders) :
       /\ \A k \in 0..n : Climb(f, k) \in PresentFolders
       /\ ParentOf(Climb(f, n)) = Undefined

\* no folder is its own ancestor
Acyclic == \A f \in PresentFolders : Climb(f, Len(folders) + 1) = Undefined

DescendantFolders(f) ==
  {g \in PresentFolders : \E n \in 1..Len(folders) : Climb(g, n) = f}

DirectItemIds(f) == {itemsIn[i].id : i \in {k \in 1..Len(itemsIn) : itemsIn[k].folder = f}}

SubtreeItemIds(f) == UNION {DirectItemIds(g) : g \in DescendantFolders(f) \cup {f}}

RECURSIVE TreeFolderIds(_)
\* the ids of the folders of a tree output, at every depth
TreeFolderIds(nodes) ==
  UNION {{nodes[i].id} \cup TreeFolderIds(nodes[i].folders) : i \in 1..Len(nodes)}

\* the tri-state of a non-empty id set against the selection
TriState(ids, selection) ==
  IF ids \subseteq selection THEN "all"
  ELSE IF ids \cap selection = {} THEN "none"
  ELSE "some"

----------------------------------------------------------------------------
\* C1: for a folder with at least one direct item, the shallow selection state
\* (from the precomputed shallow map and from the point query alike) is 'all'
\* iff every direct item id is selected, 'none' iff no direct item id is
\* selected, and 'some' in every other case.
C1_ShallowStateIsTriState ==
  \A f \in PresentFolders :
    DirectItemIds(f) # {} =>
      /\ getFolderStateById(f, TRUE) = TriState(DirectItemIds(f), itemIds)
      /\ getFolderStateByMeta(f, TRUE) = TriState(DirectItemIds(f), itemIds)

\* C2: for every selection and every folder (parent links acyclic, the spec's
\* invariant I3), the state answered from the memoized folder-to-state map equals
\* the state answered by the recursive combine over the resolved tree folder.
C2_BulkEqualsPointQuery ==
  Acyclic =>
    \A f \in PresentFolders : getFolderStateById(f, FALSE) = getFolderStateByMeta(f, FALSE)

\* C3: with a parent link configured, every folder reachable from a root has
\* itemCount = the number of items in its whole subtree and folderCount = the
\* number of its descendant folders.
C3_RollupCounts ==
  folderParentId =>
    LET lookup == metaFolderLookup
    IN \A f \in PresentFolders :
         ReachableFromRoot(f) =>
           /\ lookup[f].itemCount = Cardinality(SubtreeItemIds(f))
           /\ lookup[f].folderCount = Cardinality(DescendantFolders(f))

\* C3 witness: root F1 with child F2, I1 in F1, I2 in F2, rolled up to 2 items and 1 folder
C3_Witness ==
  /\ folderParentId
  /\ Len(folders) >= 2 /\ Len(itemsIn) >= 2
  /\ ParentOf("F1") = Undefined /\ ParentOf("F2") = "F1"
  /\ itemsIn[1].folder = "F1" /\ itemsIn[2].folder = "F2"
  /\ metaFolderLookup["F1"].itemCount = 2
  /\ metaFolderLookup["F1"].folderCount >= 1

\* C4: toggleFolder(folder) without an explicit checked value, on a folder that
\* is reachable from a root and has items to toggle: if the folder's selection
\* state is not 'all', afterwards every descendant item id (only the direct
\* items when shallow) is selected; if it is 'all', afterwards none of them is.
C4_ToggleFolderFlips ==
  [][\A folder \in FolderIds, shallow \in BOOLEAN :
       LET ids == IF shallow THEN DirectItemIds(folder) ELSE SubtreeItemIds(folder)
       IN (/\ ToggleFolder(folder, Undefined, shallow)
           /\ ReachableFromRoot(folder)
           /\ Acyclic
           /\ ids # {})
          => IF TriState(ids, itemIds) = "all"
             THEN ids \cap itemIds' = {}
             ELSE ids \subseteq itemIds']_vars

EmptyQueryCall == searchCall.called /\ IsEmpty(searchCall.query)

Values(result) == [i \in 1..Len(result) |-> result[i].value]

\* C16 as stated: a search with an empty or undefined query returns all records
\* of the collection in their original order, with ascending scores.
C16_EmptyQueryReturnsAll ==
  EmptyQueryCall =>
    \A result \in {searchCall.fuse, searchCall.simple} :
      /\ Values(result) = collection
      /\ \A i \in 1..Len(result), j \in 1..Len(result) : i < j => result[i].score < result[j].score

\* C16: a search of FuseSearcher or SimpleSearcher with an empty or undefined
\* query returns the first limit records of the collection (all of them when no
\* limit is given or the limit is not below their number) in their original
\* order, the record at index i with the score i.
C16_EmptyQueryReturnsFirstLimit ==
  EmptyQueryCall =>
    \A result \in {searchCall.fuse, searchCall.simple} :
      LET n == IF searchCall.limit.given THEN Min(searchCall.limit.n, Len(collection))
               ELSE Len(collection)
      IN /\ Values(result) = SubSeq(collection, 1, n)
         /\ \A i \in 1..Len(result) : result[i].score = i - 1

\* three records out of their numeric order, searched with no query and a limit of two
C16_Witness ==
  /\ EmptyQueryCall
  /\ collection = <<"R2", "R3", "R1">>
  /\ searchCall.limit = Limit(2)
  /\ searchCall.fuse = <<[value |-> "R2", score |-> 0], [value |-> "R3", score |-> 1]>>
  /\ searchCall.simple = searchCall.fuse

\* the position of a record in a list
PositionIn(list, record) == CHOOSE i \in 1..Len(list) : list[i] = record

\* C17: the displayed list is the search result exactly when the committed query
\* is non-empty, and the filtered list in the active sort order otherwise; the
\* search result holds the records of the filtered list that match the committed
\* query, best score first, equal scores in the order of the filtered list
\* before sorting.
C17_DisplayFollowsCommittedQuery ==
  LET filtered == filteredItems
      shown == displayData
      Before(a, b) == PositionIn(shown, a) < PositionIn(shown, b)
  IN /\ Len(shown) = Cardinality(Range(shown))
     /\ IF query # Undefined /\ query # ""
        THEN /\ Range(shown) = {r \in Range(filtered) : fuseScore(RecordNumber(r), query) # NoMatch}
             /\ \A a \in Range(shown), b \in Range(shown) :
                  LET sa == fuseScore(RecordNumber(a), query)
                      sb == fuseScore(RecordNumber(b), query)
                  IN (sa < sb \/ (sa = sb /\ PositionIn(filtered, a) < PositionIn(filtered, b)))
                       => Before(a, b)
        ELSE /\ Range(shown) = Range(filtered)
             /\ \A a \in Range(shown), b \in Range(shown) :
                  LET sorted == listSorting.active = "name" /\ listSorting.direction # ""
                      ka == IF ~sorted THEN 0
                            ELSE IF listSorting.direction = "asc" THEN RecordSortKey(a)
                            ELSE 0 - RecordSortKey(a)
                      kb == IF ~sorted THEN 0
                            ELSE IF listSorting.direction = "asc" THEN RecordSortKey(b)
                            ELSE 0 - RecordSortKey(b)
                  IN (ka < kb \/ (ka = kb /\ PositionIn(filtered, a) < PositionIn(filtered, b)))
                       => Before(a, b)

\* a committed query with a sort active and a record filtered out: the display is
\* the score order with the tie in the order before sorting, not the sorted list
C17_Witness ==
  /\ query = "ab" /\ inputSignal = ""
  /\ listSorting = [active |-> "name", direction |-> "asc"]
  /\ filterState.hideId = "R2"
  /\ Len(listItems) = 4
  /\ processedItems = <<"R3", "R1", "R4">>
  /\ displayData = <<"R4", "R1", "R3">>

\* C18: the value returned by toggleFolder / toggleItem of the single selection
\* matches the change: true exactly when the target was not selected and is
\* selected afterwards, false exactly when the target was selected and is no
\* longer selected afterwards, undefined exactly when the selection is unchanged.
C18_ToggleReturnMatchesChange ==
  selectionCall.kind # "none" =>
    LET before == IF selectionCall.kind = "folder" THEN selectionCall.folderBefore
                  ELSE selectionCall.itemBefore
        after == IF selectionCall.kind = "folder" THEN selectionFolderId ELSE selectionItemId
        was == before = selectionCall.target
        is == after = selectionCall.target
        unchanged == /\ selectionFolderId = selectionCall.folderBefore
                     /\ selectionItemId = selectionCall.itemBefore
    IN /\ (selectionCall.value = "true") = (~was /\ is)
       /\ (selectionCall.value = "false") = (was /\ ~is)
       /\ (selectionCall.value = Undefined) = unchanged

\* C19: closeFolder(F) on a folder reachable from a root leaves neither F nor any
\* descendant folder of F among the open folders, whatever the open folders were
\* before the call.
C19_CloseFolderClosesSubtree ==
  \A f \in PresentFolders :
    ReachableFromRoot(f) => ({f} \cup DescendantFolders(f)) \cap closeFolder(f) = {}

\* C20: a call for a detached search feed raises an error exactly when the data
\* source has no row configuration: a list source with neither the list nor the
\* grid configuration, a tree source without the tree row configuration.
C20_DetachedSearchNeedsConfig ==
  /\ detachedCall.kind = "list" => (detachedCall.threw = (~listConfig /\ ~gridConfig))
  /\ detachedCall.kind \in {"folder", "item"} => (detachedCall.threw = ~treeConfig)

\* C21: no record whose id is in the blacklist is in the filtered list, nor in the
\* processed list, the paginated list, the search result of any query or the
\* displayed list, whatever the blacklist and the input records are.
C21_BlacklistedNeverShown ==
  /\ Range(filteredItems) \cap blacklist = {}
  /\ Range(processedItems) \cap blacklist = {}
  /\ Range(paginatedItems) \cap blacklist = {}
  /\ \A q \in SearchValues : Range(search(q, Undefined)) \cap blacklist = {}
  /\ Range(displayData) \cap blacklist = {}

\* two of four records blacklisted, a third hidden by the filter service, on a sorted list
C21_Witness ==
  /\ Len(listItems) = 4
  /\ blacklist = {"R1", "R3"}
  /\ filterState.hideId = "R2"
  /\ listSorting.active = "name"
  /\ filteredItems = <<"R4">>
  /\ displayData = <<"R4">>
  /\ search("ab", Undefined) = <<"R4">>

\* C22: with an empty blacklist, no filter service, no active sort (and no index
\* sorting) and an empty committed query, the displayed records are the input
\* records in their original order, and so are the processed records.
C22_EmptyPipelineIsIdentity ==
  (/\ blacklist = {}
   /\ ~filterState.service
   /\ listSorting.active = ""
   /\ IsEmpty(query))
  => /\ displayData = listItems
     /\ processedItems = listItems
     /\ filteredItems = listItems

\* four records whose sort keys are not in the order of the input, shown as they came
C22_Witness ==
  /\ blacklist = {} /\ ~filterState.service
  /\ listSorting = defaultSorting
  /\ query = "" /\ inputSignal = ""
  /\ listItems = <<"R1", "R2", "R3", "R4">>
  /\ displayData = listItems
  /\ sortItemsAlways(listItems) # listItems

\* C23: for a folder whose subtree (the folder and all its descendant folders,
\* parent links acyclic) holds at least one item, the deep selection state (from
\* the memoized map and from the point query alike) is 'all' iff every item of
\* the subtree is selected, 'none' iff none is, and 'some' otherwise, whichever
\* folders of the subtree have no direct items.
C23_DeepStateIsTriState ==
  Acyclic =>
    \A f \in PresentFolders :
      SubtreeItemIds(f) # {} =>
        /\ getFolderStateById(f, FALSE) = TriState(SubtreeItemIds(f), itemIds)
        /\ getFolderStateByMeta(f, FALSE) = TriState(SubtreeItemIds(f), itemIds)

\* C24: an asynchronous source supplied through setFolders / setItems / setItems$
\* is subscribed to, so that each snapshot it emits is written into the pipeline
\* input, also when an earlier source has emitted an error.
C24_SourceAfterErrorIsSubscribed ==
  [][/\ SetFoldersSource => folderPipe' = "live"
     /\ SetItemsSource => itemPipe' = "live"
     /\ ListSetItemsSource => listPipe' = "live"]_vars

\* C25: the page clamp reaches its fixpoint after at most one write: run on any
\* page and filtered list and then again on the page it left and the same list,
\* the second run writes nothing and leaves the page alone; so in the state an
\* updatePage run has left, another run on the same filtered list changes nothing.
C25_ClampIsIdempotent ==
  /\ LET first == updatePage(page, filteredLength)
         second == updatePage(first.page, filteredLength)
     IN /\ ~second.wrote
        /\ second.page = first.page
  /\ pageLast.ran =>
       /\ ~updatePage(page, filteredLength).wrote
       /\ updatePage(page, filteredLength).page = page

\* the clamp has just written page 1 for page 3 of a list of 3 (page size 2), its
\* own write has scheduled it again, and the run to come writes nothing
C25_Witness ==
  /\ pageLast.ran /\ pageLast.page = 3 /\ pageLast.length = 3
  /\ page = [page |-> 1, pageSize |-> 2]
  /\ pageNotified
  /\ ENABLED UpdatePage
  /\ ~updatePage(page, filteredLength).wrote

\* C26 as stated: once updatePage has run, the page index is 0 or
\* page * pageSize < filtered length, for every filtered length including 0.
C26_PageNeverPastEnd ==
  pageLast.ran => (page.page = 0 \/ page.page * page.pageSize < filteredLength)

\* C26 amended: once updatePage has run on a non-empty filtered list, the page
\* index is 0 or page * pageSize < filtered length; on an empty filtered list
\* updatePage leaves the page index as it found it.
C26_PageWithinNonEmptyList ==
  pageLast.ran =>
    IF filteredLength = 0
    THEN page.page = pageLast.page
    ELSE page.page = 0 \/ page.page * page.pageSize < filteredLength

\* five records of which the blacklist and the filter leave two: page 3 clamped to page 1
C26_Witness ==
  /\ pageLast.ran /\ pageLast.page = 3
  /\ Len(listItems) = 5 /\ blacklist # {}
  /\ filteredLength = 2
  /\ page = [page |-> 1, pageSize |-> 1]

\* C27: once the effect has taken an empty or undefined input, the committed
\* query is that empty value and no debounce or throttle timer is pending for as
\* long as the input stays empty; and the committed query only ever turns from
\* empty to non-empty while the input is non-empty.
C27_ClearedQueryStaysEmpty ==
  /\ []((~effectDirty /\ IsEmpty(inputSignal))
         => /\ query = inputSignal
            /\ ~shortTimeout.on
            /\ ~longTimeout.on)
  /\ [][(IsEmpty(query) /\ ~IsEmpty(query')) => ~IsEmpty(inputSignal')]_vars

\* the input cleared in the middle of a burst, and the debounce delay later the
\* query is still empty although a stale value is left in nextValue
C27_Witness ==
  /\ searchLast = "tick"
  /\ sinceUpdate = DebounceDelay
  /\ inputSignal = "" /\ query = ""
  /\ nextValue = "ab" /\ ~effectDirty
  /\ ~shortTimeout.on /\ ~longTimeout.on

\* C28: when the input has not changed for the debounce delay (and the timer
\* that falls due at that moment has run), the committed query equals the input
\* and no timer is pending, so that it keeps this value until the input changes;
\* and every change of the committed query sets it to the value the input holds.
C28_SettledInputIsCommitted ==
  /\ []((~effectDirty /\ sinceUpdate = DebounceDelay /\ ~TimerDue)
         => /\ query = inputSignal
            /\ ~shortTimeout.on
            /\ ~longTimeout.on)
  /\ [][query' # query => query' = inputSignal']_vars

\* a, ab one tick apart, then nothing: ab is committed and no timer is left
C28_Witness ==
  /\ searchLast = "debounce"
  /\ burst.open /\ burst.age = 1 + DebounceDelay /\ burst.changes = 1
  /\ sinceUpdate = DebounceDelay
  /\ inputSignal = "ab" /\ query = "ab"
  /\ ~shortTimeout.on /\ ~longTimeout.on

\* C29: building the hierarchy terminates on every finite folder/item input,
\* cyclic parent links included: populateDeepFolder never reaches a folder that
\* is already on its path, so every path is shorter than the folder list and
\* holds no folder twice.
C29_NestDataTerminates ==
  LET mf == metaFolders
  IN \A i \in 1..Len(mf) :
       /\ ~mf[i].diverges
       /\ Len(mf[i].path) < Len(folders)
       /\ mf[i].id \notin Range(mf[i].path)
       /\ Cardinality(Range(mf[i].path)) = Len(mf[i].path)

\* root F1 next to F2 and F3, which are each other's parent and hold an item:
\* the hierarchy is built, the root is populated and the cycle is left as mapped
C29_Witness ==
  /\ folderParentId
  /\ Len(folders) = 3
  /\ ParentOf("F1") = Undefined /\ ParentOf("F2") = "F3" /\ ParentOf("F3") = "F2"
  /\ Len(itemsIn) = 2 /\ itemsIn[1].folder = "F1" /\ itemsIn[2].folder = "F2"
  /\ Len(metaFolders) = 3
  /\ metaFolderLookup["F1"].itemCount = 1
  /\ metaFolderLookup["F2"].folders = <<"F3">>
  /\ metaFolderLookup["F3"].folders = <<"F2">>
  /\ metaFolderLookup["F3"].itemCount = 0

\* C30: on every finite input, cyclic parent links and a non-empty selection
\* included, the bulk folder-to-state map is computed, the deep point query
\* answers for every folder, and toggleFolder enumerates the folder's items:
\* none of them recurses without end.
C30_SelectionTerminates ==
  /\ ~folderStates.diverges
  /\ \A f \in PresentFolders :
       /\ getFolderStateByMeta(f, FALSE) # Diverges
       /\ \A state \in ToggleStates : toggleFolder(f, state, FALSE).value # Diverges

\* C31: with a parent link configured, a folder without a chain of parent links
\* to a root (its parent is missing, or it lies on or below a parent cycle) keeps
\* path = [], folderCount = 0 and itemCount = its number of direct items, is not
\* in the tree output at any depth, and the builder returns.
C31_OrphanFoldersStayUnpopulated ==
  folderParentId =>
    LET lookup == metaFolderLookup
        shown == TreeFolderIds(treeData)
    IN \A f \in PresentFolders :
         ~ReachableFromRoot(f) =>
           /\ lookup[f].path = <<>>
           /\ lookup[f].folderCount = 0
           /\ lookup[f].itemCount = Cardinality(DirectItemIds(f))
           /\ ~lookup[f].diverges
           /\ f \notin shown

\* root F1 and F2 whose parent F3 does not exist, with both items in F2
C31_Witness ==
  /\ folderParentId /\ treeConfig
  /\ Len(folders) = 2
  /\ ParentOf("F1") = Undefined /\ ParentOf("F2") = "F3"
  /\ Len(itemsIn) = 2 /\ itemsIn[1].folder = "F2" /\ itemsIn[2].folder = "F2"
  /\ metaFolderLookup["F2"].itemCount = 2
  /\ metaFolderLookup["F2"].path = <<>>
  /\ TreeFolderIds(treeData) = {"F1"}

\* C32: when no folder parent link is configured, the builder returns every
\* folder, each with path = [], folders = [], folderCount = 0 and itemCount =
\* its number of direct items.
C32_FlatFoldersWithoutParentLink ==
  ~folderParentId =>
    LET mf == metaFolders
    IN /\ Len(mf) = Len(folders)
       /\ \A i \in 1..Len(mf) :
            /\ mf[i].id = folders[i].id
            /\ mf[i].path = <<>>
            /\ mf[i].folders = <<>>
            /\ mf[i].folderCount = 0
            /\ mf[i].itemCount = Cardinality(DirectItemIds(mf[i].id))
            /\ Range(mf[i].items) = DirectItemIds(mf[i].id)

\* three folders whose data names F1 as the parent of F2, read without a parent link
C32_Witness ==
  /\ ~folderParentId
  /\ Len(folders) = 3 /\ folders[2].parent = "F1" /\ folders[3].parent = "F2"
  /\ Len(itemsIn) = 2 /\ itemsIn[1].folder = "F2" /\ itemsIn[2].folder = "F2"
  /\ metaFolders[1].folders = <<>> /\ metaFolders[1].itemCount = 0
  /\ metaFolders[2].itemCount = 2 /\ metaFolders[2].path = <<>>

\* C33: toggleFolder on a folder id that is not in the data source, or on a
\* folder without any item in its subtree, with any checked value, deep or
\* shallow, leaves the selected id set as it is and returns undefined (it
\* neither throws nor recurses without end).
C33_ToggleOfEmptyOrUnknownFolder ==
  \A folder \in FolderIds :
    (folder \notin PresentFolders \/ SubtreeItemIds(folder) = {}) =>
      \A state \in ToggleStates, shallow \in BOOLEAN :
        /\ toggleFolder(folder, state, shallow).set = itemIds
        /\ toggleFolder(folder, state, shallow).value = Undefined

\* I1 in F1 is selected, F2 below F1 holds nothing and F3 does not exist:
\* toggling F2 or F3 on leaves the selection at {I1}
C33_Witness ==
  /\ folderParentId
  /\ Len(folders) = 2 /\ ParentOf("F1") = Undefined /\ ParentOf("F2") = "F1"
  /\ Len(itemsIn) = 2 /\ itemsIn[1].folder = "F1" /\ itemsIn[2].folder = "F1"
  /\ itemIds = {"I1"}
  /\ SubtreeItemIds("F2") = {}
  /\ toggleFolder("F2", "true", FALSE) = [set |-> {"I1"}, value |-> Undefined]
  /\ toggleFolder("F3", "true", FALSE) = [set |-> {"I1"}, value |-> Undefined]
  /\ toggleFolder("F1", "true", FALSE).set = {"I1", "I2"}

\* C34: with a sort active whose column id has no registered comparator, the
\* list is ordered as with no sort active (the index sort of the filtered list)
\* and the tree search result is the merged result in score order, unsorted.
C34_UnknownSortColumnIsNoSort ==
  /\ listSorting.active = "other" =>
       /\ processedItems = indexSort(filteredItems)
       /\ IsEmpty(query) => displayData = indexSort(filteredItems)
  /\ treeSorting.active = "other" =>
       \A q \in SearchValues : searchResult(q) = mergedSearchData(q)

\* both sources sort by a column nobody registered: four records in their filtered
\* order, and the item before the folder as their scores put them
C34_Witness ==
  /\ listSorting.active = "other" /\ treeSorting.active = "other"
  /\ ~indexSorted
  /\ Len(listItems) = 4 /\ filterState.hideId = "R1"
  /\ processedItems = <<"R2", "R3", "R4">>
  /\ Len(folders) = 1 /\ Len(itemsIn) = 1
  /\ searchResult("ab") = <<[id |-> "I1", isFolder |-> FALSE], [id |-> "F1", isFolder |-> TRUE]>>

\* C35: for a list declared index-sorted, the processed list is in ascending
\* index order whenever no user sort is in effect (no active sort, or an active
\* sort id without a registered comparator), and when a user sort is in effect
\* it is the filtered list in the order of that sort's comparator alone.
C35_IndexOrderWithoutUserSort ==
  indexSorted =>
    LET filtered == filteredItems
        processed == processedItems
        keys == [i \in 1..Len(filtered) |-> RecordSortKey(filtered[i])]
    IN IF listSorting.active = "name" /\ listSorting.direction # ""
       THEN processed = stableSort(filtered, IF listSorting.direction = "asc"
                                             THEN keys ELSE Negated(keys))
       ELSE /\ Len(processed) = Len(filtered)
            /\ Range(processed) = Range(filtered)
            /\ \A i \in 1..Len(processed), j \in 1..Len(processed) :
                 i < j => RecordIndex(processed[i]) <= RecordIndex(processed[j])

\* C36: the sort stage (index sort or user sort, ascending or descending, of the
\* list source, and the sort of the tree search rows) leaves the list it is given
\* with the same elements in the same order: it sorts a copy.
C36_SortLeavesItsInputAlone ==
  /\ sortItemsCall(filteredItems).list = filteredItems
  /\ indexSortCall(filteredItems).list = filteredItems
  /\ sortItemsCall(filteredItems).result = processedItems
  /\ \A q \in SearchValues :
       LET merged == mergedSearchData(q)
           call == sortRowsCall(merged)
       IN call.list = merged /\ call.result = sortRows(merged)

\* both sources sort by name and the sorted output differs from the input of the sort
C36_Witness ==
  /\ listSorting = [active |-> "name", direction |-> "desc"]
  /\ treeSorting = [active |-> "name", direction |-> "asc"]
  /\ Len(listItems) = 4 /\ filterState.hideId = "R2"
  /\ filteredItems = <<"R1", "R3", "R4">>
  /\ processedItems # filteredItems
  /\ sortItemsCall(filteredItems).list = <<"R1", "R3", "R4">>
  /\ Len(folders) = 1 /\ Len(itemsIn) = 1
  /\ searchResult("ab") # mergedSearchData("ab")
  /\ sortRowsCall(mergedSearchData("ab")).list = mergedSearchData("ab")

\* C37: once the injector is destroyed no debounce or throttle timer is pending,
\* and the committed query never changes again, whatever was pending at the
\* destruction and whatever the input does afterwards.
C37_NoCommitAfterDestroy ==
  /\ [](destroyed => (~shortTimeout.on /\ ~longTimeout.on /\ ~effectDirty))
  /\ [][destroyed => query' = query]_vars

\* destroyed in the middle of a burst: the throttle delay's worth of the debounce
\* later the pending value ab is still uncommitted
C37_Witness ==
  /\ destroyed
  /\ searchLast = "tick" /\ sinceUpdate = DebounceDelay
  /\ inputSignal = "ab" /\ nextValue = "ab"
  /\ query = Undefined
  /\ ~shortTimeout.on /\ ~longTimeout.on

\* C38: whenever the single selection of a tree exposes a selected item (item,
\* baseItem or metaItem is defined), that item is the one selected by id and its
\* folderId is the selected folder id, after any sequence of setFolder, setItem,
\* toggleFolder, toggleItem and clear and any change of the data.
C38_ExposedItemIsInSelectedFolder ==
  LET base == selectedBaseItem(selectedFolderId, selectedItemId)
      model == selectedItem(selectedFolderId, selectedItemId)
      meta == selectedMetaItem(selectedFolderId, selectedItemId)
  IN /\ base.exposed => (base.id = selectedItemId /\ base.folderId = selectedFolderId)
     /\ model.exposed => (model.id = selectedItemId /\ model.folderId = selectedFolderId)
     /\ meta.exposed => (meta.id = selectedItemId /\ meta.folderId = selectedFolderId)

\* item I1 of folder F2 is selected and exposed while another item lies in F1
C38_Witness ==
  /\ selectedItemId = "I1" /\ selectedFolderId = "F2"
  /\ selectedBaseItem(selectedFolderId, selectedItemId).exposed
  /\ selectedMetaItem(selectedFolderId, selectedItemId).exposed
  /\ Len(baseItems) = 2 /\ baseItems[2].folderId = "F1"

\* C10: every item of the builder's items array has a folderId that resolves to
\* a folder of the folders array, with its folder back-reference set to that
\* folder; an item whose folderId matches no folder is in neither the items
\* array nor any folder's items list.
C10_ItemsResolveToFolders ==
  /\ \A i \in 1..Len(metaItems) :
       /\ \E j \in 1..Len(metaFolders) : metaFolders[j].id = metaItems[i].folderId
       /\ metaItems[i].folder = metaItems[i].folderId
  /\ \A k \in 1..Len(itemsIn) :
       itemsIn[k].folder \notin PresentFolders =>
         /\ \A i \in 1..Len(metaItems) : metaItems[i].id # itemsIn[k].id
         /\ \A j \in 1..Len(metaFolders) : itemsIn[k].id \notin Range(metaFolders[j].items)

\* C5: whenever the filtered list is non-empty and the page index points past
\* its end (page * pageSize >= filtered length), the page-clamp step sets the
\* page index to floor((length - 1) / pageSize), which is never below 0.
C5_ClampToLastPage ==
  (/\ pageLast.ran
   /\ pageLast.length > 0
   /\ pageLast.page * page.pageSize >= pageLast.length)
  => /\ page.page = (pageLast.length - 1) \div page.pageSize
     /\ page.page >= 0

\* C5 witness: page size 2, page index 2, the filtered list down to 3: clamped to 1
C5_Witness ==
  /\ pageLast.ran
  /\ page.pageSize = 2 /\ pageLast.page = 2 /\ pageLast.length = 3
  /\ page.page = 1

\* C6: the page-clamp step never changes the page index while it is still
\* valid, i.e. while it is 0 or page * pageSize < filtered length.
C6_ValidPageUntouched ==
  (/\ pageLast.ran
   /\ (pageLast.page = 0 \/ pageLast.page * page.pageSize < pageLast.length))
  => page.page = pageLast.page

\* C6 witness: the step ran on a valid page other than the first and left it alone
C6_Witness ==
  /\ pageLast.ran
  /\ pageLast.page > 0
  /\ pageLast.page * page.pageSize < pageLast.length
  /\ page.page = pageLast.page

\* C7 as stated: when the debounce ends a burst of non-empty updates less than
\* the debounce delay apart, no later than the throttle delay after the burst's
\* first update, the burst has made exactly one committed query change, at the
\* debounce delay after the last update and with the last value.
C7_BurstCommitsExactlyOnce ==
  (searchLast = "debounce" /\ burst.open /\ burst.age <= ThrottleDelay)
  => /\ burst.changes = 1
     /\ burst.changeAge = burst.age
     /\ sinceUpdate = DebounceDelay
     /\ query = inputSignal

\* C7 amended: such a burst makes exactly one committed query change when its
\* last value differs from the query committed before the burst, and none when
\* they are equal; either way the query is the last value at the debounce delay
\* after the last update, and no change happened earlier in the burst.
C7_BurstCommitsLastValueOnce ==
  (searchLast = "debounce" /\ burst.open /\ burst.age <= ThrottleDelay)
  => /\ sinceUpdate = DebounceDelay
     /\ query = inputSignal
     /\ IF burst.before = inputSignal
        THEN burst.changes = 0
        ELSE burst.changes = 1 /\ burst.changeAge = burst.age

\* C7 witness: a, ab, abc one tick apart; abc committed 3 ticks after the last
C7_Witness ==
  /\ searchLast = "debounce"
  /\ burst.open /\ burst.age = 2 + DebounceDelay /\ burst.before = Undefined
  /\ burst.changes = 1 /\ burst.changeAge = burst.age
  /\ inputSignal = "abc" /\ query = "abc"

\* C8: a run of the effect on an empty or undefined input leaves the committed
\* query at that value and no timer pending, whatever was pending before.
C8_EmptyCommitsAtOnce ==
  (searchLast = "effect" /\ IsEmpty(inputSignal))
  => /\ query = inputSignal
     /\ ~shortTimeout.on
     /\ ~longTimeout.on

\* C8 witness: the input cleared in the middle of a burst, before any commit
C8_Witness ==
  /\ searchLast = "effect"
  /\ inputSignal = ""
  /\ query = ""
  /\ sinceUpdate = 0
  /\ nextValue = "ab"
  /\ ~shortTimeout.on /\ ~longTimeout.on

\* C9: a non-empty update is never left uncommitted for longer than the
\* throttle delay after the first update that followed the previous commit,
\* and the commit of the throttle carries the most recent input value.
C9_ThrottleCeiling ==
  /\ sinceFirst <= ThrottleDelay
  /\ searchLast = "throttle" => query = inputSignal
  /\ (sinceFirst >= 0 /\ ~effectDirty) =>
        longTimeout.on /\ longTimeout.left = ThrottleDelay - sinceFirst

\* C9 witness: the throttle commits in the middle of a burst that the debounce
\* never ended, the throttle delay after its first update
C9_Witness ==
  /\ searchLast = "throttle"
  /\ burst.open /\ burst.age = ThrottleDelay /\ burst.changes = 1
  /\ burst.changeAge = ThrottleDelay
  /\ shortTimeout.on /\ shortTimeout.left > 0
  /\ query = inputSignal /\ query = "abc"

\* the number of strict ancestors of a folder whose parent chain ends at a root
Depth(f) == CHOOSE n \in 0..Len(folders) : ParentOf(Climb(f, n)) = Undefined /\
                                          \A k \in 0..n : Climb(f, k) \in PresentFolders

\* the strict ancestors of f, from the root down to f's direct parent
AncestorChain(f) == [k \in 1..Depth(f) |-> Climb(f, Depth(f) - k + 1)]

\* C11: for every folder reachable from a root, path is the ordered list of
\* its strict ancestors from the root down to its direct parent; it never
\* contains the folder itself and is empty for root folders.
C11_PathIsAncestorChain ==
  LET lookup == metaFolderLookup
  IN \A f \in PresentFolders :
       ReachableFromRoot(f) =>
         /\ lookup[f].path = AncestorChain(f)
         /\ f \notin Range(lookup[f].path)
         /\ ParentOf(f) = Undefined => lookup[f].path = <<>>

\* C11 witness: F1 > F2 > F3, and the path of F3 is [F1, F2]
C11_Witness ==
  /\ folderParentId
  /\ Len(folders) >= 3
  /\ ParentOf("F1") = Undefined /\ ParentOf("F2") = "F1" /\ ParentOf("F3") = "F2"
  /\ metaFolderLookup["F3"].path = <<"F1", "F2">>
  /\ metaFolderLookup["F1"].path = <<>>

\* C12: when an observable folder or item source emits an error, the input of
\* the pipeline (folders, items, list items) is replaced by the empty
\* collection, and no error notification reaches a subscriber.
C12_SourceErrorGivesEmpty ==
  /\ ~sourceError
  /\ sourceLast.kind = "error" =>
       /\ sourceLast.pipe = "folders" => folders = <<>>
       /\ sourceLast.pipe = "items" => itemsIn = <<>>
       /\ sourceLast.pipe = "list" => listItems = <<>>

\* C12 witness: each of the three sources has failed after it had delivered data
C12_Witness ==
  /\ sourceLast.kind = "error" /\ sourceLast.before > 0
  /\ folderPipe = "closed" /\ itemPipe = "closed" /\ listPipe = "closed"
  /\ folders = <<>> /\ itemsIn = <<>> /\ listItems = <<>>
  /\ ~sourceError

\* C13: when the only configured filter is inactive for the current filter
\* state and the blacklist is empty, the filter stage returns the very same
\* list object it was given.
C13_InactiveFilterKeepsReference ==
  (filterState.service /\ ~isActive(filterState) /\ blacklist = {})
  => filterItems(itemsArray) = itemsArray

\* C13 witness: a filter service with its filter inactive, records to filter, no blacklist
C13_Witness ==
  /\ filterState.service /\ ~isActive(filterState)
  /\ blacklist = {}
  /\ Len(listItems) >= 2
  /\ filterItems(itemsArray).ref = itemsArray.ref

\* the hits of both collections for the query q, as a bag of rows
TreeHits(q) ==
  {r \in Range(preSearchFolders) \cup Range(preSearchItems) : fuseScore(RowNumber(r), q) # NoMatch}

\* C14: when no sort is active, the combined tree search result holds the
\* folder hits and the item hits together, in non-decreasing order of their
\* matcher score, whichever collection a hit came from.
C14_MergedByScore ==
  treeSorting.active = "" =>
    \A q \in SearchValues :
      LET rows == searchResult(q)
      IN /\ Range(rows) = (IF IsEmpty(q) THEN {} ELSE TreeHits(q))
         /\ Len(rows) = Cardinality(Range(rows))
         /\ \A i \in 1..Len(rows), j \in 1..Len(rows) :
              i < j => fuseScore(RowNumber(rows[i]), q) <= fuseScore(RowNumber(rows[j]), q)

\* C14 witness: for "ab" the folder F1 scores 2 and the item I1 scores 0: I1 comes first
C14_Witness ==
  /\ treeSorting.active = ""
  /\ Len(folders) = 1 /\ Len(itemsIn) = 1
  /\ searchResult("ab") = <<[id |-> "I1", isFolder |-> FALSE], [id |-> "F1", isFolder |-> TRUE]>>

====
